---- MODULE Spec2Model ----
(***************************************************************************)
(* LifeOS Core: the plugin scheduling layer (server/routes/plugins.js) and *)
(* the event store (lib/eventManager.js) with its HTTP routes              *)
(* (server/routes/events.js).                                              *)
(*                                                                         *)
(* The specifications share the variables below:                           *)
(*   PluginSpec    the scheduler: scan, enable, disable, config update,    *)
(*                 one request at a time                                   *)
(*   RunSpec       plugin runs, manual and scheduled, and lastRun          *)
(*   RegistrySpec  install, list and get of the plugin registry            *)
(*   OverlapSpec   enable / disable / config update / scan interleaved at  *)
(*                 their file-I/O points                                   *)
(*   StoreSpec     create / get / update / delete on the events table      *)
(*   ListSpec      getEvents (filtering, LIKE matching, ordering, paging)  *)
(*   ResolveSpec   resolveURI and its fallback to the store                *)
(*   RaceSpec      store operations interleaved at their database calls    *)
(*   ScanSpec      the startup scan with failing stat, read and schedule   *)
(*   TriggerSpec   enable / disable while a scheduled run is in flight     *)
(*   LastRunSpec   lastRun updates interleaved with enable / disable       *)
(* Each leaves the other parts' variables at their initial values.         *)
(***************************************************************************)
EXTENDS Integers, Sequences, FiniteSets, TLC

VARIABLES
    disk,        \* plugin id -> the plugin.json on disk
    activeJobs,  \* plugin id -> index into jobs of the registered cron job, 0 = no entry
    jobs,        \* every cron job ever created by cron.schedule, in creation order
    started,     \* initializeScheduledJobs has finished
    resp,        \* the last plugin response sent: [op, id, status]
    run,         \* the plugin run in progress or last finished
    reqs,        \* the plugin requests in flight, each at one of its awaits
    events,      \* the events table: id -> row
    now,         \* the wall clock read by new Date()
    lastOp,      \* the last event-store operation and its outcome
    listed,      \* what the operation just carried out listed: getEvents' options and rows
    resolution   \* what the last resolveURI call did

vars == <<disk, activeJobs, jobs, started, resp, run, reqs,
          events, now, lastOp, listed, resolution>>
pluginVars == <<disk, activeJobs, jobs, started, resp, run, reqs>>
storeVars == <<events, now, lastOp>>
storeSide == <<events, now, lastOp, listed, resolution>>

(***************************************************************************)
(* PLUGINS                                                                 *)
(***************************************************************************)

PluginIds == {"p1", "p2"}

\* Cron jobs created over a run of the model.
MaxJobs == 3

\* JSON values of plugin.json fields, as tokens.  "absent" is a key that is
\* not in the object.
EnabledValues == {"true", "false", "absent"}
CronExprs == {"0 * * * *", "*/5 * * * *"}
ScheduleValues == {"absent", "null", ""} \cup CronExprs

\* JavaScript truthiness of those tokens.
Truthy(v) == v \notin {"absent", "null", "", "false"}

\* What fs.readFile + JSON.parse of plugin.json gives: a config object
\* (file = "ok"), a rejection because the directory or the file is not
\* there ("missing"), or a SyntaxError ("corrupt").
Descriptors ==
    [file : {"ok"}, enabled : EnabledValues, schedule : ScheduleValues]
    \cup {[file |-> f, enabled |-> "absent", schedule |-> "absent"] : f \in {"missing", "corrupt"}}

\* A plugin directory: whether it is there ("dir") and, if it is, the
\* descriptor in it, the lastRun the descriptor carries and the main file
\* index.js ("own" as its author wrote it, "stub" as install generates it,
\* "none" when there is no such file).
NoLastRun == "absent"
NoDir ==
    [dir |-> "none", file |-> "missing", enabled |-> "absent",
     schedule |-> "absent", lastRun |-> NoLastRun, index |-> "none"]
PluginDir(descriptor, index) ==
    [dir |-> "dir", file |-> descriptor.file, enabled |-> descriptor.enabled,
     schedule |-> descriptor.schedule, lastRun |-> NoLastRun, index |-> index]

Readable(p) == disk[p].dir = "dir" /\ disk[p].file = "ok"

NoResp == [op |-> "none", id |-> "none", status |-> 0]

\* No plugin run has been started; no request is in flight.
NoRun == [kind |-> "none"]
NoRequests == <<>>

\* stopScheduledJob that deletes the map entry without job.stop().
StopScheduledJob_DeleteOnly(st, p) ==
    [jobs |-> st.jobs, active |-> [st.active EXCEPT ![p] = 0]]

\* stopScheduledJob(pluginId): job.stop() and activeJobs.delete(pluginId)
\* when the map has a job for the id.  st = [jobs, active].
StopScheduledJob(st, p) ==
    IF st.active[p] # 0
    THEN [jobs   |-> [st.jobs EXCEPT ![st.active[p]].stopped = TRUE],
          active |-> [st.active EXCEPT ![p] = 0]]
    ELSE st

\* startScheduledJob without the leading stopScheduledJob.
StartScheduledJob_NoStop(st, p, config) ==
    IF Truthy(config.schedule) /\ Truthy(config.enabled)
    THEN [jobs   |-> Append(st.jobs, [plugin |-> p, schedule |-> config.schedule,
                                       stopped |-> FALSE]),
          active |-> [st.active EXCEPT ![p] = Len(st.jobs) + 1]]
    ELSE st

\* startScheduledJob(pluginId, config): stop the existing job, then
\* cron.schedule and activeJobs.set when schedule and enabled are truthy.
StartScheduledJob(st, p, config) ==
    LET s1 == StopScheduledJob(st, p) IN
    IF Truthy(config.schedule) /\ Truthy(config.enabled)
    THEN [jobs   |-> Append(s1.jobs, [plugin |-> p, schedule |-> config.schedule,
                                       stopped |-> FALSE]),
          active |-> [s1.active EXCEPT ![p] = Len(s1.jobs) + 1]]
    ELSE s1

\* The for-loop of initializeScheduledJobs over the directory entries `todo`:
\* a readable descriptor with enabled && schedule is started, an unreadable
\* one is logged and skipped.
RECURSIVE ScanPlugins(_, _)
ScanPlugins(st, todo) ==
    IF todo = {} THEN st
    ELSE LET p == CHOOSE q \in todo : TRUE
             s1 == IF Readable(p) /\ Truthy(disk[p].enabled) /\ Truthy(disk[p].schedule)
                   THEN StartScheduledJob(st, p, disk[p])
                   ELSE st
         IN ScanPlugins(s1, todo \ {p})

\* initializeScheduledJobs(), run once at module load.
InitializeScheduledJobs ==
    /\ ~started
    /\ LET s1 == ScanPlugins([jobs |-> jobs, active |-> activeJobs], PluginIds) IN
       /\ jobs' = s1.jobs
       /\ activeJobs' = s1.active
    /\ started' = TRUE
    /\ UNCHANGED <<disk, resp>>
    /\ UNCHANGED <<run, reqs>>
    /\ UNCHANGED storeSide

\* The job bookkeeping of POST /:id/enable after the descriptor is written.
EnableJobs(st, p, config) ==
    IF Truthy(config.schedule) /\ Truthy(config.enabled)
    THEN StartScheduledJob(st, p, config)
    ELSE st

\* POST /api/plugins/:id/enable
EnablePlugin(p) ==
    /\ started
    /\ Len(jobs) < MaxJobs
    /\ IF ~Readable(p)
       THEN /\ resp' = [op |-> "enable", id |-> p, status |-> 500]
            /\ UNCHANGED <<disk, activeJobs, jobs>>
       ELSE LET config == [disk[p] EXCEPT !.enabled = "true"]
                s1 == EnableJobs([jobs |-> jobs, active |-> activeJobs], p, config)
            IN /\ disk' = [disk EXCEPT ![p] = config]
               /\ jobs' = s1.jobs
               /\ activeJobs' = s1.active
               /\ resp' = [op |-> "enable", id |-> p, status |-> 200]
    /\ UNCHANGED started
    /\ UNCHANGED <<run, reqs>>
    /\ UNCHANGED storeSide

\* POST /api/plugins/:id/disable
DisablePlugin(p) ==
    /\ started
    /\ IF ~Readable(p)
       THEN /\ resp' = [op |-> "disable", id |-> p, status |-> 500]
            /\ UNCHANGED <<disk, activeJobs, jobs>>
       ELSE LET config == [disk[p] EXCEPT !.enabled = "false"]
                s1 == StopScheduledJob([jobs |-> jobs, active |-> activeJobs], p)
            IN /\ disk' = [disk EXCEPT ![p] = config]
               /\ jobs' = s1.jobs
               /\ activeJobs' = s1.active
               /\ resp' = [op |-> "disable", id |-> p, status |-> 200]
    /\ UNCHANGED started
    /\ UNCHANGED <<run, reqs>>
    /\ UNCHANGED storeSide

\* A request body of PUT /:id/config: the keys it carries.  "nochange" is a
\* key the body does not have; a body cannot remove a key, it can set it to
\* null or "".
ConfigUpdates ==
    [enabled : {"nochange", "true", "false"},
     schedule : {"nochange", "null", ""} \cup CronExprs]

\* Object.assign(config, updates)
AssignConfig(config, updates) ==
    [config EXCEPT
        !.enabled = IF updates.enabled = "nochange" THEN @ ELSE updates.enabled,
        !.schedule = IF updates.schedule = "nochange" THEN @ ELSE updates.schedule]

\* The job bookkeeping of PUT /:id/config after the descriptor is written.
ConfigJobs(st, p, config) ==
    IF Truthy(config.schedule) /\ Truthy(config.enabled)
    THEN StartScheduledJob(StopScheduledJob(st, p), p, config)
    ELSE IF ~Truthy(config.enabled)
         THEN StopScheduledJob(st, p)
         ELSE st

\* PUT /api/plugins/:id/config
UpdatePluginConfig(p, updates) ==
    /\ started
    /\ Len(jobs) < MaxJobs
    /\ IF ~Readable(p)
       THEN /\ resp' = [op |-> "config", id |-> p, status |-> 500]
            /\ UNCHANGED <<disk, activeJobs, jobs>>
       ELSE LET config == AssignConfig(disk[p], updates)
                s1 == ConfigJobs([jobs |-> jobs, active |-> activeJobs], p, config)
            IN /\ disk' = [disk EXCEPT ![p] = config]
               /\ jobs' = s1.jobs
               /\ activeJobs' = s1.active
               /\ resp' = [op |-> "config", id |-> p, status |-> 200]
    /\ UNCHANGED started
    /\ UNCHANGED <<run, reqs>>
    /\ UNCHANGED storeSide

PluginInit ==
    /\ disk \in [PluginIds -> {PluginDir(d, "own") : d \in Descriptors}]
    /\ activeJobs = [p \in PluginIds |-> 0]
    /\ jobs = <<>>
    /\ started = FALSE
    /\ resp = NoResp
    /\ run = NoRun
    /\ reqs = NoRequests

PluginNext ==
    \/ InitializeScheduledJobs
    \/ \E p \in PluginIds : EnablePlugin(p)
    \/ \E p \in PluginIds : DisablePlugin(p)
    \/ \E p \in PluginIds : \E u \in ConfigUpdates : UpdatePluginConfig(p, u)

\* The un-stopped cron jobs created for plugin p.
LiveJobs(p) == {j \in 1..Len(jobs) : jobs[j].plugin = p /\ ~jobs[j].stopped}

SchedulePresent(p) == Readable(p) /\ disk[p].schedule \notin {"absent", "null", ""}

\* C1: once the startup scan has finished, and after every completed
\* enable, disable or config update, a plugin id is in the active-trigger
\* map if and only if its descriptor on disk has enabled == true and a
\* present, non-empty schedule.
C1_TriggerIffEnabledScheduled ==
    started =>
        \A p \in PluginIds :
            (activeJobs[p] # 0) <=> (SchedulePresent(p) /\ disk[p].enabled = "true")

\* C2: the map entry of an id is its only live trigger: every trigger that
\* is not the map's entry for its id has been stopped; after an enable of a
\* plugin with a non-empty schedule, repeated or not, the id has exactly one
\* live trigger; after a disable it has none.
C2_ExactlyOneTrigger ==
    /\ \A j \in 1..Len(jobs) : ~jobs[j].stopped => activeJobs[jobs[j].plugin] = j
    /\ \A p \in PluginIds :
          activeJobs[p] # 0 =>
              /\ activeJobs[p] \in 1..Len(jobs)
              /\ jobs[activeJobs[p]].plugin = p
              /\ ~jobs[activeJobs[p]].stopped
    /\ (resp.op = "enable" /\ resp.status = 200 /\ SchedulePresent(resp.id))
          => Cardinality(LiveJobs(resp.id)) = 1
    /\ (resp.op = "disable" /\ resp.status = 200)
          => Cardinality(LiveJobs(resp.id)) = 0

\* C2 witness: an enable has just replaced an earlier trigger of the same
\* plugin: two triggers were created for the id, one is stopped, one is live.
C2_Witness ==
    /\ resp.op = "enable" /\ resp.status = 200
    /\ \E i, j \in 1..Len(jobs) :
          /\ i < j
          /\ jobs[i].plugin = resp.id /\ jobs[j].plugin = resp.id
          /\ jobs[i].stopped /\ ~jobs[j].stopped

(***************************************************************************)
(* JSON VALUES                                                             *)
(*                                                                         *)
(* A JavaScript / JSON value is a tagged record.  A string is a sequence   *)
(* of text units; a value the code never looks inside (an id, a title, a   *)
(* timestamp) is written as one unit, a value that is serialized or        *)
(* matched by LIKE is written character by character.                      *)
(***************************************************************************)

Undef == [t |-> "undefined"]
Null == [t |-> "null"]
Num(n) == [t |-> "number", n |-> n]
Str(s) == [t |-> "string", s |-> s]
Arr(a) == [t |-> "array", a |-> a]
Obj(o) == [t |-> "object", o |-> o]
SyntaxError == [t |-> "SyntaxError"]

\* JavaScript truthiness (the source's `x || d` and `x ? a : b`).
JsTruthy(v) ==
    CASE v.t = "undefined" -> FALSE
      [] v.t = "null" -> FALSE
      [] v.t = "string" -> v.s # <<>>
      [] v.t = "number" -> v.n # 0
      [] OTHER -> TRUE

\* JSON.stringify of a string: quotes around it, quote and backslash escaped.
RECURSIVE EscapeUnits(_)
EscapeUnits(s) ==
    IF s = <<>> THEN <<>>
    ELSE (IF Head(s) \in {"\"", "\\"} THEN <<"\\", Head(s)>> ELSE <<Head(s)>>)
         \o EscapeUnits(Tail(s))

QuoteString(s) == <<"\"">> \o EscapeUnits(s) \o <<"\"">>

\* JSON.stringify(value) for strings, null, one-digit numbers, arrays and
\* objects (an object is the sequence of its <<key, value>> members in
\* insertion order); undefined inside an array is written null.
RECURSIVE JsonStringify(_)
RECURSIVE JoinItems(_)
RECURSIVE JoinMembers(_)
JsonStringify(v) ==
    CASE v.t = "string" -> QuoteString(v.s)
      [] v.t = "null" -> <<"n", "u", "l", "l">>
      [] v.t = "number" -> <<ToString(v.n)>>
      [] v.t = "array" -> <<"[">> \o JoinItems(v.a) \o <<"]">>
      [] v.t = "object" -> <<"{">> \o JoinMembers(v.o) \o <<"}">>
      [] OTHER -> <<"n", "u", "l", "l">>

JoinItems(a) ==
    IF a = <<>> THEN <<>>
    ELSE JsonStringify(Head(a))
         \o (IF Tail(a) = <<>> THEN <<>> ELSE <<",">> \o JoinItems(Tail(a)))

JoinMembers(o) ==
    IF o = <<>> THEN <<>>
    ELSE QuoteString(Head(o)[1]) \o <<":">> \o JsonStringify(Head(o)[2])
         \o (IF Tail(o) = <<>> THEN <<>> ELSE <<",">> \o JoinMembers(Tail(o)))

\* JSON.parse, by recursive descent over the text.  A parse step returns
\* [ok, val, next]: the value read and the position after it.
ParseFail == [ok |-> FALSE, val |-> SyntaxError, next |-> 0]

RECURSIVE ParseChars(_, _, _)
ParseChars(txt, i, acc) ==
    IF i > Len(txt) THEN ParseFail
    ELSE IF txt[i] = "\"" THEN [ok |-> TRUE, val |-> Str(acc), next |-> i + 1]
    ELSE IF txt[i] = "\\"
         THEN IF i + 1 > Len(txt) THEN ParseFail
              ELSE ParseChars(txt, i + 2, Append(acc, txt[i + 1]))
    ELSE ParseChars(txt, i + 1, Append(acc, txt[i]))

RECURSIVE ParseValue(_, _)
RECURSIVE ParseItems(_, _, _)
RECURSIVE ParseMembers(_, _, _)
ParseValue(txt, i) ==
    IF i > Len(txt) THEN ParseFail
    ELSE CASE txt[i] = "\"" -> ParseChars(txt, i + 1, <<>>)
           [] txt[i] = "[" ->
                IF i + 1 <= Len(txt) /\ txt[i + 1] = "]"
                THEN [ok |-> TRUE, val |-> Arr(<<>>), next |-> i + 2]
                ELSE ParseItems(txt, i + 1, <<>>)
           [] txt[i] = "{" ->
                IF i + 1 <= Len(txt) /\ txt[i + 1] = "}"
                THEN [ok |-> TRUE, val |-> Obj(<<>>), next |-> i + 2]
                ELSE ParseMembers(txt, i + 1, <<>>)
           [] txt[i] = "n" ->
                IF i + 3 <= Len(txt) /\ SubSeq(txt, i, i + 3) = <<"n", "u", "l", "l">>
                THEN [ok |-> TRUE, val |-> Null, next |-> i + 4]
                ELSE ParseFail
           [] OTHER ->
                IF \E n \in 0..9 : ToString(n) = txt[i]
                THEN [ok |-> TRUE,
                      val |-> Num(CHOOSE n \in 0..9 : ToString(n) = txt[i]),
                      next |-> i + 1]
                ELSE ParseFail

ParseItems(txt, i, acc) ==
    LET r == ParseValue(txt, i) IN
    IF ~r.ok \/ r.next > Len(txt) THEN ParseFail
    ELSE IF txt[r.next] = "," THEN ParseItems(txt, r.next + 1, Append(acc, r.val))
    ELSE IF txt[r.next] = "]"
         THEN [ok |-> TRUE, val |-> Arr(Append(acc, r.val)), next |-> r.next + 1]
    ELSE ParseFail

ParseMembers(txt, i, acc) ==
    IF i > Len(txt) \/ txt[i] # "\"" THEN ParseFail
    ELSE LET k == ParseChars(txt, i + 1, <<>>) IN
         IF ~k.ok \/ k.next > Len(txt) \/ txt[k.next] # ":" THEN ParseFail
         ELSE LET r == ParseValue(txt, k.next + 1) IN
              IF ~r.ok \/ r.next > Len(txt) THEN ParseFail
              ELSE IF txt[r.next] = ","
                   THEN ParseMembers(txt, r.next + 1, Append(acc, <<k.val.s, r.val>>))
              ELSE IF txt[r.next] = "}"
                   THEN [ok |-> TRUE, val |-> Obj(Append(acc, <<k.val.s, r.val>>)),
                         next |-> r.next + 1]
              ELSE ParseFail

JsonParse(txt) ==
    LET r == ParseValue(txt, 1) IN
    IF r.ok /\ r.next = Len(txt) + 1 THEN r.val ELSE SyntaxError

(***************************************************************************)
(* EVENT STORE                                                             *)
(***************************************************************************)

\* The columns of the events table, which are also the keys of an event.
Fields ==
    {"id", "timestamp", "source", "type", "title", "metadata", "linked_uris",
     "tags", "mood", "location", "duration", "created_at", "updated_at"}

\* An object with none of the keys; getEvent's null is written the same way.
EmptyObject == [f \in Fields |-> Undef]
NoRow == EmptyObject

\* A string the code treats as a whole.
Word(w) == Str(<<w>>)

\* Instants the clock can show, as new Date().toISOString() prints them.
IsoTimes ==
    <<"2024-06-01T10:00:00.000Z", "2024-06-01T10:00:01.000Z",
      "2024-06-01T10:00:02.000Z", "2024-06-01T10:00:03.000Z">>

\* Ticks of the clock over a run of the model.
MaxClock == 1

IsoNow(clock) == Word(IsoTimes[clock + 1])

\* Strings Date.parse accepts.
ParsableDates ==
    {IsoTimes[i] : i \in 1..Len(IsoTimes)}
    \cup {"2024-01-01T00:00:00Z", "2023-12-31T00:00:00Z", "1999-01-01T00:00:00Z"}

\* The 'date-time' format given to ajv: !isNaN(Date.parse(dateTimeString)).
IsDateTime(v) == v.t = "string" /\ Len(v.s) = 1 /\ v.s[1] \in ParsableDates

IsStringArray(v) == v.t = "array" /\ \A i \in 1..Len(v.a) : v.a[i].t = "string"

\* this.validate(candidate): the set of violated fields, empty when the
\* candidate passes.  Required: timestamp (a date-time), source, type, title.
\* Optional, checked when the key is there: mood a number, tags and
\* linked_uris arrays of strings, metadata an object.
Validate(c) ==
    {f \in {"timestamp"} : ~IsDateTime(c[f])}
    \cup {f \in {"source", "type", "title"} : c[f].t # "string"}
    \cup {f \in {"mood"} : c[f] # Undef /\ c[f].t # "number"}
    \cup {f \in {"tags", "linked_uris"} : c[f] # Undef /\ ~IsStringArray(c[f])}
    \cup {f \in {"metadata"} : c[f] # Undef /\ c[f].t # "object"}

\* "Serialize complex fields" of createEvent and updateEvent.
SerializeEvent(event) ==
    [event EXCEPT
        !.metadata = Str(JsonStringify(IF JsTruthy(@) THEN @ ELSE Obj(<<>>))),
        !.linked_uris = Str(JsonStringify(IF JsTruthy(@) THEN @ ELSE Arr(<<>>))),
        !.tags = Str(JsonStringify(IF JsTruthy(@) THEN @ ELSE Arr(<<>>))),
        !.location = IF JsTruthy(@) THEN Str(JsonStringify(@)) ELSE Null]

\* A statement parameter as SQLite stores it: undefined is bound as NULL.
ToSql(v) == IF v = Undef THEN Null ELSE v

Stored(table, id) == table[id] # NoRow

\* "Parse complex fields" of getEvent, getEvents and searchEvents.
ParseRow(row) ==
    [row EXCEPT
        !.metadata = JsonParse(IF JsTruthy(@) THEN @.s ELSE <<"{", "}">>),
        !.linked_uris = JsonParse(IF JsTruthy(@) THEN @.s ELSE <<"[", "]">>),
        !.tags = JsonParse(IF JsTruthy(@) THEN @.s ELSE <<"[", "]">>),
        !.location = IF JsTruthy(@) THEN JsonParse(@.s) ELSE Null]

\* getEvent(id): the row with its compound fields parsed, or null.
GetEvent(table, id) ==
    IF ~Stored(table, id) THEN EmptyObject ELSE ParseRow(table[id])

\* An INSERT OR REPLACE: a row with the same primary key is overwritten.
InsertEvent_Replace(table, event, s) ==
    [err |-> "none",
     ret |-> [event EXCEPT !.metadata = JsonParse(s.metadata.s),
                           !.linked_uris = JsonParse(s.linked_uris.s),
                           !.tags = JsonParse(s.tags.s),
                           !.location = IF JsTruthy(s.location)
                                        THEN JsonParse(s.location.s) ELSE Null],
     table |-> [table EXCEPT ![event.id] = [f \in Fields |-> ToSql(s[f])]]]

\* The INSERT of createEvent and the value it resolves with: the statement
\* is rejected when the primary key exists; otherwise the row is written and
\* the event is returned with its serialized fields parsed back.
InsertEvent(table, event, s) ==
    IF Stored(table, event.id)
    THEN [err |-> "storage", ret |-> EmptyObject, table |-> table]
    ELSE [err |-> "none",
          ret |-> [event EXCEPT !.metadata = JsonParse(s.metadata.s),
                                !.linked_uris = JsonParse(s.linked_uris.s),
                                !.tags = JsonParse(s.tags.s),
                                !.location = IF JsTruthy(s.location)
                                             THEN JsonParse(s.location.s) ELSE Null],
          table |-> [table EXCEPT ![event.id] = [f \in Fields |-> ToSql(s[f])]]]

\* "Generate ID if not provided": id, created_at and updated_at of the new
\* event.  uuid is what uuidv4() returns.
AssignIds(eventData, clock, uuid) ==
    [eventData EXCEPT
        !.id = IF JsTruthy(@) THEN @ ELSE uuid,
        !.created_at = IF JsTruthy(@) THEN @ ELSE IsoNow(clock),
        !.updated_at = IsoNow(clock)]

PersistNew(table, event) == InsertEvent(table, event, SerializeEvent(event))

\* createEvent that skips the schema check.
CreateEvent_NoValidate(table, clock, eventData, uuid) ==
    PersistNew(table, AssignIds(eventData, clock, uuid))

\* createEvent(eventData): validate, assign id and timestamps, serialize,
\* INSERT, return the event.
CreateEvent(table, clock, eventData, uuid) ==
    IF Validate(eventData) # {}
    THEN [err |-> "validation", ret |-> EmptyObject, table |-> table]
    ELSE PersistNew(table, AssignIds(eventData, clock, uuid))

\* { ...event, ...updates, updated_at: new Date().toISOString() }
MergeUpdates(event, updates, clock) ==
    [f \in Fields |->
        IF f = "updated_at" THEN IsoNow(clock)
        ELSE IF updates[f] # Undef THEN updates[f] ELSE event[f]]

\* An UPDATE that also sets id and created_at from the merged event.
UpdateRow_AllColumns(row, s) == [f \in Fields |-> ToSql(s[f])]

\* The UPDATE statement: every column but id and created_at, WHERE id = ?.
UpdateRow(row, s) ==
    [f \in Fields |-> IF f \in {"id", "created_at"} THEN row[f] ELSE ToSql(s[f])]

\* updateEvent that validates the record as read, not the merged event.
UpdateEvent_ValidateExisting(table, clock, id, updates) ==
    LET event == GetEvent(table, id) IN
    IF event = EmptyObject
    THEN [err |-> "notfound", ret |-> EmptyObject, table |-> table]
    ELSE IF Validate(event) # {}
         THEN [err |-> "validation", ret |-> EmptyObject, table |-> table]
         ELSE [err |-> "none",
               ret |-> MergeUpdates(event, updates, clock),
               table |-> [table EXCEPT
                             ![id] = UpdateRow(@, SerializeEvent(
                                         MergeUpdates(event, updates, clock)))]]

\* updateEvent that runs the UPDATE before it validates.
UpdateEvent_WriteFirst(table, clock, id, updates) ==
    LET event == GetEvent(table, id) IN
    IF event = EmptyObject
    THEN [err |-> "notfound", ret |-> EmptyObject, table |-> table]
    ELSE [err |-> IF Validate(MergeUpdates(event, updates, clock)) # {}
                  THEN "validation" ELSE "none",
          ret |-> IF Validate(MergeUpdates(event, updates, clock)) # {}
                  THEN EmptyObject ELSE MergeUpdates(event, updates, clock),
          table |-> [table EXCEPT
                        ![id] = UpdateRow(@, SerializeEvent(
                                    MergeUpdates(event, updates, clock)))]]

\* updateEvent(id, updates): read, fail when absent, merge, validate the
\* merged event, serialize, UPDATE, return the merged event.
UpdateEvent(table, clock, id, updates) ==
    LET event == GetEvent(table, id) IN
    IF event = EmptyObject
    THEN [err |-> "notfound", ret |-> EmptyObject, table |-> table]
    ELSE LET updatedEvent == MergeUpdates(event, updates, clock) IN
         IF Validate(updatedEvent) # {}
         THEN [err |-> "validation", ret |-> EmptyObject, table |-> table]
         ELSE [err |-> "none",
               ret |-> updatedEvent,
               table |-> [table EXCEPT
                             ![id] = UpdateRow(@, SerializeEvent(updatedEvent))]]

\* deleteEvent that resolves true whatever this.changes is.
DeleteEvent_AlwaysTrue(table, id) ==
    [deleted |-> TRUE, table |-> [table EXCEPT ![id] = NoRow]]

\* deleteEvent(id): DELETE ... WHERE id = ?, resolve(this.changes > 0).
DeleteEvent(table, id) ==
    [deleted |-> Stored(table, id), table |-> [table EXCEPT ![id] = NoRow]]

(***************************************************************************)
(* getEvents                                                               *)
(***************************************************************************)

\* limit = 100 of getEvents' options.
DefaultLimit == 100

\* ASCII letters, the only ones SQLite's LIKE folds.
UpperCase ==
    <<"A", "B", "C", "D", "E", "F", "G", "H", "I", "J", "K", "L", "M",
      "N", "O", "P", "Q", "R", "S", "T", "U", "V", "W", "X", "Y", "Z">>
LowerCase ==
    <<"a", "b", "c", "d", "e", "f", "g", "h", "i", "j", "k", "l", "m",
      "n", "o", "p", "q", "r", "s", "t", "u", "v", "w", "x", "y", "z">>

Lower(u) ==
    IF \E i \in 1..Len(UpperCase) : UpperCase[i] = u
    THEN LowerCase[CHOOSE i \in 1..Len(UpperCase) : UpperCase[i] = u]
    ELSE u

\* text LIKE pattern, as SQLite evaluates it: % is any run of characters,
\* _ any one character, a letter matches itself in either case.
RECURSIVE Like(_, _)
Like(pattern, text) ==
    IF pattern = <<>> THEN text = <<>>
    ELSE IF Head(pattern) = "%"
         THEN \/ Like(Tail(pattern), text)
              \/ text # <<>> /\ Like(pattern, Tail(text))
    ELSE IF text = <<>> THEN FALSE
    ELSE IF Head(pattern) = "_" THEN Like(Tail(pattern), Tail(text))
    ELSE Lower(Head(pattern)) = Lower(Head(text))
         /\ Like(Tail(pattern), Tail(text))

\* The texts the model's timestamps are, in the order of their characters:
\* what timestamp >= ?, timestamp <= ? and ORDER BY timestamp compare.
LexOrder ==
    <<"1999-01-01T00:00:00Z", "2023-12-31T00:00:00Z", "2024-01-01T00:00:00Z">>
    \o IsoTimes

LexRank(v) == CHOOSE i \in 1..Len(LexOrder) : LexOrder[i] = v.s[1]

\* getEvents' options; a key that is not given is undefined.
NoOptions ==
    [source |-> Undef, type |-> Undef, startDate |-> Undef, endDate |-> Undef,
     tags |-> Undef, limit |-> Undef, offset |-> Undef]

\* A tag condition that wants every tag of the filter to match.
TagsCondition_EveryTag(row, tags) ==
    \A i \in 1..Len(tags.a) : Like(<<"%">> \o tags.a[i].s \o <<"%">>, row.tags.s)

\* (tags LIKE ? OR tags LIKE ? ...) with the parameters `%${tag}%`.
TagsCondition(row, tags) ==
    \E i \in 1..Len(tags.a) : Like(<<"%">> \o tags.a[i].s \o <<"%">>, row.tags.s)

\* The WHERE clause getEvents builds: 1=1 and one condition for each option
\* that is truthy (for tags: a non-empty array).
WhereClause(row, options) ==
    /\ JsTruthy(options.source) => row.source = options.source
    /\ JsTruthy(options.type) => row.type = options.type
    /\ JsTruthy(options.startDate) => LexRank(row.timestamp) >= LexRank(options.startDate)
    /\ JsTruthy(options.endDate) => LexRank(row.timestamp) <= LexRank(options.endDate)
    /\ (JsTruthy(options.tags) /\ Len(options.tags.a) > 0)
          => TagsCondition(row, options.tags)

SelectedIds(table, options) ==
    {id \in DOMAIN table : Stored(table, id) /\ WhereClause(table[id], options)}

\* ORDER BY timestamp DESC: the orders the selected rows can come in; rows
\* with the same timestamp come in any order.
Orderings(table, ids) ==
    {order \in [1..Cardinality(ids) -> ids] :
        /\ \A i, j \in 1..Cardinality(ids) : i # j => order[i] # order[j]
        /\ \A i, j \in 1..Cardinality(ids) :
              i < j => LexRank(table[order[i]].timestamp)
                          >= LexRank(table[order[j]].timestamp)}

\* LIMIT ? OFFSET ? with limit = 100 and offset = 0 when not given.
LimitOffset(order, options) ==
    LET limit == IF options.limit = Undef THEN DefaultLimit ELSE options.limit.n
        offset == IF options.offset = Undef THEN 0 ELSE options.offset.n
        last == IF offset + limit < Len(order) THEN offset + limit ELSE Len(order)
    IN SubSeq(order, offset + 1, last)

\* getEvents(options): the results the query can resolve with, each the
\* selected rows in order, cut to the page, compound fields parsed.
GetEvents(table, options) ==
    {[i \in DOMAIN page |-> ParseRow(table[page[i]])] :
        page \in {LimitOffset(order, options) :
                     order \in Orderings(table, SelectedIds(table, options))}}

\* The Error messages thrown, as the words the routes look for.
ErrorMessage(err) ==
    CASE err = "notfound" -> <<"Event", "not found", ":", "id">>
      [] err = "validation" -> <<"Invalid event", ":", "errorsText">>
      [] err = "storage" -> <<"SQLITE_CONSTRAINT", ":", "UNIQUE constraint failed", "events.id">>
      [] OTHER -> <<>>

\* error.message.includes(needle)
MessageIncludes(msg, needle) == \E i \in 1..Len(msg) : msg[i] = needle

\* Ids: one a caller supplies, one uuidv4() hands out.
E1 == Word("e1")
U1 == Word("uuid-1")
EventIds == {E1, U1}
UuidPool == {U1}

\* An event with the required fields only.
MinimalEvent ==
    [EmptyObject EXCEPT
        !.timestamp = Word("2024-01-01T00:00:00Z"),
        !.source = Word("manual"),
        !.type = Word("health.gym"),
        !.title = Word("Leg day")]

\* An event with every field, a caller-chosen id and created_at, and a tag
\* and a metadata value that JSON.stringify has to escape.
FullEvent ==
    [MinimalEvent EXCEPT
        !.id = E1,
        !.metadata = Obj(<< <<<<"k">>, Str(<<"v", "\"">>)>> >>),
        !.linked_uris = Arr(<<Word("life://manual/health.gym/1")>>),
        !.tags = Arr(<<Str(<<"g", "y", "m">>), Str(<<"a", "\\", ",">>)>>),
        !.mood = Num(7),
        !.location = Obj(<< <<<<"city">>, Word("Oslo")>> >>),
        !.duration = Num(3600),
        !.created_at = Word("2023-12-31T00:00:00Z")]

\* Payloads the validator rejects: each differs from a valid one in one field.
InvalidEvents ==
    {[FullEvent EXCEPT !.timestamp = Undef],
     [FullEvent EXCEPT !.timestamp = Word("not-a-date")],
     [FullEvent EXCEPT !.source = Undef],
     [FullEvent EXCEPT !.type = Undef],
     [FullEvent EXCEPT !.title = Undef],
     [FullEvent EXCEPT !.mood = Word("great")],
     [FullEvent EXCEPT !.tags = Arr(<<Num(1)>>)],
     [FullEvent EXCEPT !.linked_uris = Word("life://x")],
     [FullEvent EXCEPT !.metadata = Arr(<<>>)],
     [MinimalEvent EXCEPT !.title = Undef],
     [MinimalEvent EXCEPT !.tags = Word("gym")]}

\* eventData passed to createEvent by a direct caller (a plugin, a script).
CreatePayloads == {MinimalEvent, FullEvent} \cup InvalidEvents

\* Bodies of POST /api/events.
PostBodies ==
    {[MinimalEvent EXCEPT !.timestamp = Undef],
     [FullEvent EXCEPT !.title = Undef],
     FullEvent}

\* Bodies of PUT /api/events/:id.
ValidPatches ==
    {EmptyObject,
     [EmptyObject EXCEPT !.title = Word("Leg day 2")],
     [EmptyObject EXCEPT !.mood = Num(3),
                         !.tags = Arr(<<Str(<<"r", "u", "n">>)>>)],
     [EmptyObject EXCEPT !.id = Word("e2"),
                         !.created_at = Word("1999-01-01T00:00:00Z"),
                         !.updated_at = Word("1999-01-01T00:00:00Z")]}

InvalidPatches ==
    {[EmptyObject EXCEPT !.mood = Word("great")],
     [EmptyObject EXCEPT !.mood = Num(3), !.title = Num(1)],
     [EmptyObject EXCEPT !.mood = Num(3), !.timestamp = Word("not-a-date")],
     [EmptyObject EXCEPT !.mood = Num(3), !.tags = Word("gym")],
     [EmptyObject EXCEPT !.mood = Num(3), !.metadata = Null]}

Patches == ValidPatches \cup InvalidPatches

\* lastOp: the operation, its target id, the input it accepted (the
\* eventData or the updates, when nothing was thrown), the value it returned,
\* the error it threw, the fields of the validated candidate that violate
\* the schema, deleteEvent's answer and the HTTP status (0 for a direct call).
NoOp ==
    [op |-> "none", id |-> Undef, input |-> EmptyObject, ret |-> EmptyObject,
     err |-> "none", violations |-> {}, deleted |-> "n/a", status |-> 0]

\* listed when the operation was not getEvents.
NoListing == [options |-> NoOptions, rows |-> <<>>]

\* resolution before any resolveURI call.
NoResolution == [outcome |-> "none"]

Accepted(err, input) == IF err = "none" THEN input ELSE EmptyObject

\* uuidv4() is consulted when a valid payload carries no id; it returns an
\* id that is not in the table.
NeedsUuid(eventData) == Validate(eventData) = {} /\ ~JsTruthy(eventData.id)
FreshUuids == {u \in UuidPool : ~Stored(events, u)}

\* A direct call of eventManager.createEvent(eventData).
CreateEventCall(eventData) ==
    /\ NeedsUuid(eventData) => FreshUuids # {}
    /\ \E uuid \in (IF NeedsUuid(eventData) THEN FreshUuids ELSE {U1}) :
          \E r \in {CreateEvent(events, now, eventData, uuid)} :
          /\ events' = r.table
          /\ lastOp' = [NoOp EXCEPT !.op = "create", !.id = r.ret.id,
                                    !.input = Accepted(r.err, eventData),
                                    !.ret = r.ret, !.err = r.err,
                                    !.violations = Validate(eventData)]
    /\ listed' = NoListing
    /\ UNCHANGED now
    /\ UNCHANGED resolution
    /\ UNCHANGED pluginVars

\* The status POST /api/events answers with.
PostStatus(err) == IF err = "none" THEN 201 ELSE 400

\* POST /api/events: default the timestamp, createEvent, 201 or 400.
PostEvent(body) ==
    LET eventData == IF JsTruthy(body.timestamp) THEN body
                     ELSE [body EXCEPT !.timestamp = IsoNow(now)]
    IN /\ NeedsUuid(eventData) => FreshUuids # {}
       /\ \E uuid \in (IF NeedsUuid(eventData) THEN FreshUuids ELSE {U1}) :
             \E r \in {CreateEvent(events, now, eventData, uuid)} :
             /\ events' = r.table
             /\ lastOp' = [NoOp EXCEPT !.op = "create", !.id = r.ret.id,
                                       !.input = Accepted(r.err, eventData),
                                       !.ret = r.ret, !.err = r.err,
                                       !.violations = Validate(eventData),
                                       !.status = PostStatus(r.err)]
       /\ listed' = NoListing
       /\ UNCHANGED now
       /\ UNCHANGED resolution
       /\ UNCHANGED pluginVars

\* What the validator says of the merged event an update of a stored record
\* builds (nothing when the id is not stored).
MergedViolations(table, clock, id, updates) ==
    IF Stored(table, id)
    THEN Validate(MergeUpdates(GetEvent(table, id), updates, clock))
    ELSE {}

\* A PUT route that answers every error with 400.
PutStatus_NoNotFound(err) == IF err = "none" THEN 200 ELSE 400

\* The status PUT /api/events/:id answers with.
PutStatus(err) ==
    IF err = "none" THEN 200
    ELSE IF MessageIncludes(ErrorMessage(err), "not found") THEN 404 ELSE 400

\* PUT /api/events/:id
PutEvent(id, updates) ==
    \E r \in {UpdateEvent(events, now, id, updates)} :
    /\ events' = r.table
    /\ lastOp' = [NoOp EXCEPT !.op = "update", !.id = id,
                              !.input = Accepted(r.err, updates),
                              !.ret = r.ret, !.err = r.err,
                              !.violations = MergedViolations(events, now, id, updates),
                              !.status = PutStatus(r.err)]
    /\ listed' = NoListing
    /\ UNCHANGED now
    /\ UNCHANGED resolution
    /\ UNCHANGED pluginVars

\* DELETE /api/events/:id
DeleteEventReq(id) ==
    LET r == DeleteEvent(events, id) IN
    /\ events' = r.table
    /\ lastOp' = [NoOp EXCEPT !.op = "delete", !.id = id,
                              !.deleted = IF r.deleted THEN "true" ELSE "false",
                              !.status = IF r.deleted THEN 200 ELSE 404]
    /\ listed' = NoListing
    /\ UNCHANGED now
    /\ UNCHANGED resolution
    /\ UNCHANGED pluginVars

\* GET /api/events/:id
GetEventReq(id) ==
    LET event == GetEvent(events, id) IN
    /\ lastOp' = [NoOp EXCEPT !.op = "get", !.id = id, !.ret = event,
                              !.status = IF event = EmptyObject THEN 404 ELSE 200]
    /\ listed' = NoListing
    /\ UNCHANGED <<events, now>>
    /\ UNCHANGED resolution
    /\ UNCHANGED pluginVars

\* Time passes between two operations.
Tick ==
    /\ now < MaxClock
    /\ now' = now + 1
    /\ lastOp' = [NoOp EXCEPT !.op = "tick"]
    /\ UNCHANGED <<events, listed>>
    /\ UNCHANGED resolution
    /\ UNCHANGED pluginVars

StoreInit ==
    /\ events = [id \in EventIds |-> NoRow]
    /\ now = 0
    /\ lastOp = NoOp
    /\ listed = NoListing
    /\ resolution = NoResolution

StoreNext ==
    \/ \E eventData \in CreatePayloads : CreateEventCall(eventData)
    \/ \E body \in PostBodies : PostEvent(body)
    \/ \E id \in EventIds : \E updates \in Patches : PutEvent(id, updates)
    \/ \E id \in EventIds : DeleteEventReq(id)
    \/ \E id \in EventIds : GetEventReq(id)
    \/ Tick

(***************************************************************************)
(* Event store claims                                                      *)
(***************************************************************************)

StoredIds == {id \in EventIds : Stored(events, id)}

CompoundFields == {"metadata", "linked_uris", "tags"}
EmptyCompound(f) == IF f = "metadata" THEN Obj(<<>>) ELSE Arr(<<>>)

\* A row as the schema wants it, read from its columns: the four required
\* columns hold strings (timestamp a date-time), mood is a number or NULL,
\* tags and linked_uris hold the text of an array of strings, metadata the
\* text of an object.
RowSchemaOK(row) ==
    /\ IsDateTime(row.timestamp)
    /\ \A f \in {"source", "type", "title"} : row[f].t = "string"
    /\ row.mood = Null \/ row.mood.t = "number"
    /\ \A f \in {"tags", "linked_uris"} :
          row[f].t = "string" /\ IsStringArray(JsonParse(row[f].s))
    /\ row.metadata.t = "string" /\ JsonParse(row.metadata.s).t = "object"

\* The candidate a successful write validated: createEvent validates the
\* eventData, updateEvent the merged event it returns.
ValidatedCandidate == IF lastOp.op = "create" THEN lastOp.input ELSE lastOp.ret

\* C3: every row of the table satisfies the schema, and right after a
\* successful create or update the validated columns of the written row hold
\* the values of the candidate that passed validation.
C3_PersistedValuesValidated ==
    /\ \A id \in StoredIds : RowSchemaOK(events[id])
    /\ (lastOp.op \in {"create", "update"} /\ lastOp.err = "none") =>
          /\ Stored(events, lastOp.id)
          /\ Validate(ValidatedCandidate) = {}
          /\ \A f \in {"timestamp", "source", "type", "title", "mood"} :
                events[lastOp.id][f] = ToSql(ValidatedCandidate[f])
          /\ \A f \in CompoundFields :
                JsonParse(events[lastOp.id][f].s) =
                    IF ValidatedCandidate[f] = Undef THEN EmptyCompound(f)
                    ELSE ValidatedCandidate[f]

\* C3 witness: an update has just written a row whose mood and tags came
\* from the patch.
C3_Witness ==
    /\ lastOp.op = "update" /\ lastOp.err = "none"
    /\ lastOp.input.mood = Num(3)
    /\ events[lastOp.id].mood = Num(3)
    /\ events[lastOp.id].tags = Str(JsonStringify(lastOp.input.tags))

\* C4: a create whose payload fails validation throws the validation error,
\* returns nothing and leaves every row of the table as it was.
C4_InvalidCreateWritesNothing ==
    [][(lastOp'.op = "create" /\ lastOp'.violations # {}) =>
          /\ lastOp'.err = "validation"
          /\ lastOp'.ret = EmptyObject
          /\ events' = events]_vars

\* C4 witness: a create without a title was rejected while the table holds
\* a record.
C4_Witness ==
    /\ lastOp.op = "create" /\ lastOp.err = "validation"
    /\ "title" \in lastOp.violations
    /\ StoredIds # {}

\* C5: an update of a stored record whose merged event fails validation is
\* rejected (400) and leaves the table, updated_at included, as it was.
C5_InvalidUpdateWritesNothing ==
    [][(lastOp'.op = "update" /\ lastOp'.violations # {}) =>
          /\ lastOp'.err = "validation"
          /\ lastOp'.status = 400
          /\ events' = events]_vars

\* C5 witness: an update was rejected by the validator at a time other than
\* the record's updated_at, which is still the old one.
C5_Witness ==
    /\ lastOp.op = "update" /\ lastOp.err = "validation"
    /\ Stored(events, lastOp.id)
    /\ events[lastOp.id].updated_at # IsoNow(now)

\* C6: an update of an id that is not stored throws the not-found error,
\* changes nothing, and PUT answers 404.
C6_UpdateMissingIsNotFound ==
    [][(lastOp'.op = "update" /\ ~Stored(events, lastOp'.id)) =>
          /\ lastOp'.err = "notfound"
          /\ lastOp'.status = 404
          /\ events' = events]_vars

\* C6 witness: PUT of a missing id answered 404 while another record is stored.
C6_Witness ==
    /\ lastOp.op = "update" /\ lastOp.err = "notfound" /\ lastOp.status = 404
    /\ ~Stored(events, lastOp.id)
    /\ StoredIds # {}

\* C7: right after a successful create, get(id) returns every field of the
\* payload other than id, created_at and updated_at as supplied; a field the
\* payload did not have comes back absent (or, for metadata, linked_uris and
\* tags, as the documented empty default).
C7_CreateGetRoundTrip ==
    (lastOp.op = "create" /\ lastOp.err = "none") =>
        \A f \in Fields \ {"id", "created_at", "updated_at"} :
            LET got == GetEvent(events, lastOp.id)[f] IN
            IF lastOp.input[f] # Undef THEN got = lastOp.input[f]
            ELSE IF f \in CompoundFields THEN got \in {Undef, EmptyCompound(f)}
            ELSE got = Undef

\* C8: delete answers true exactly when the id was stored, never throws,
\* leaves the id absent and every other row as it was; a delete right after
\* a successful delete of the same id answers false.
C8_DeleteReportsRemoval ==
    [][lastOp'.op = "delete" =>
          /\ lastOp'.deleted = (IF Stored(events, lastOp'.id) THEN "true" ELSE "false")
          /\ lastOp'.err = "none"
          /\ ~Stored(events', lastOp'.id)
          /\ \A id \in EventIds \ {lastOp'.id} : events'[id] = events[id]
          /\ (lastOp.op = "delete" /\ lastOp.deleted = "true" /\ lastOp.id = lastOp'.id)
                => lastOp'.deleted = "false"]_vars

\* C8 witness: a delete removed a stored record and answered true while
\* another record stays stored.
C8_Witness ==
    /\ lastOp.op = "delete" /\ lastOp.deleted = "true"
    /\ ~Stored(events, lastOp.id)
    /\ StoredIds # {}

\* C9: a successful update leaves the row's id and created_at as they were,
\* sets updated_at to the current time, stores in every other column the
\* patch's value where the patch has one and the old value elsewhere, and
\* leaves the other rows alone; no update, successful or not, changes a
\* stored id or created_at.
C9_UpdateStoresMerge ==
    [][lastOp'.op = "update" =>
          /\ \A id \in EventIds :
                /\ events'[id].id = events[id].id
                /\ events'[id].created_at = events[id].created_at
          /\ lastOp'.err = "none" =>
                /\ events'[lastOp'.id].updated_at = IsoNow(now)
                /\ \A f \in Fields \ {"id", "created_at", "updated_at"} :
                      GetEvent(events', lastOp'.id)[f] =
                          IF lastOp'.input[f] # Undef THEN lastOp'.input[f]
                          ELSE GetEvent(events, lastOp'.id)[f]
                /\ \A id \in EventIds \ {lastOp'.id} : events'[id] = events[id]]_vars

\* C9 witness: an update whose patch carried another id and created_at went
\* through at a later time: the row keeps its id and created_at and has the
\* new updated_at.
C9_Witness ==
    /\ lastOp.op = "update" /\ lastOp.err = "none"
    /\ lastOp.input.id # Undef /\ lastOp.input.created_at # Undef
    /\ events[lastOp.id].id = lastOp.id
    /\ events[lastOp.id].id # lastOp.input.id
    /\ events[lastOp.id].created_at # lastOp.input.created_at
    /\ events[lastOp.id].updated_at = IsoNow(now)
    /\ now > 0

\* C17: a create or update request that ends in a validation error is
\* answered with a 4xx status, one that ends in the not-found error with
\* 404, and one that ends in an error of the database (a rejected INSERT)
\* with a 5xx status.
C17_ErrorClassStatus ==
    (lastOp.op \in {"create", "update"} /\ lastOp.status # 0) =>
        /\ lastOp.err = "validation" => lastOp.status \in 400..499
        /\ lastOp.err = "notfound" => lastOp.status = 404
        /\ lastOp.err = "storage" => lastOp.status \in 500..599

\* The required fields of the schema.
RequiredFields == {"timestamp", "source", "type", "title"}

\* Patches that set required fields, and nothing else, to valid values.
RequiredFieldPatches ==
    {updates \in ValidPatches :
        /\ updates # EmptyObject
        /\ \A f \in Fields : updates[f] # Undef => f \in RequiredFields}

\* C22: for every stored record (create accepted each of them), an update
\* whose patch only sets required fields to valid values passes validation
\* and is persisted: the row then holds the patch's values.
C22_UpdateOfCreatedRecordValidates ==
    \A id \in StoredIds : \A updates \in RequiredFieldPatches :
        LET r == UpdateEvent(events, now, id, updates) IN
        /\ r.err = "none"
        /\ \A f \in RequiredFields :
              updates[f] # Undef => r.table[id][f] = updates[f]

\* C26: right after a successful update, get(id) returns the record the
\* update returned, field for field.
C26_UpdateReturnsWhatGetReads ==
    (lastOp.op = "update" /\ lastOp.err = "none") =>
        \A f \in Fields : GetEvent(events, lastOp.id)[f] = lastOp.ret[f]

\* Valid payloads that carry the caller's own id.
SuppliedIdPayloads ==
    {eventData \in CreatePayloads : Validate(eventData) = {} /\ JsTruthy(eventData.id)}

\* C30: the id column of every stored row is the row's key, so no two rows
\* share an id; a create with a caller-supplied id fails, leaving the table
\* as it is, exactly when that id is stored (so it succeeds again once the
\* id has been deleted); and no create changes a row that was stored.
C30_StoredIdsUnique ==
    /\ [](\A id \in StoredIds : events[id].id = id)
    /\ [](\A eventData \in SuppliedIdPayloads :
             LET r == CreateEvent(events, now, eventData, U1) IN
             IF Stored(events, eventData.id)
             THEN r.err # "none" /\ r.ret = EmptyObject /\ r.table = events
             ELSE /\ r.err = "none"
                  /\ Stored(r.table, eventData.id)
                  /\ r.table[eventData.id].id = eventData.id)
    /\ [][lastOp'.op = "create" =>
             /\ \A id \in StoredIds : events'[id] = events[id]
             /\ lastOp'.err # "none" => events' = events]_vars

\* C30 witness: a create was rejected by the database while the id it
\* carried is stored, after that record was updated and another was stored.
C30_Witness ==
    /\ lastOp.op = "create" /\ lastOp.err = "storage"
    /\ Stored(events, E1) /\ Stored(events, U1)
    /\ events[E1].title = Word("Leg day 2")

(***************************************************************************)
(* Listing: records with tags, and getEvents calls over them               *)
(***************************************************************************)

Chars(c1, c2, c3) == Str(<<c1, c2, c3>>)
Gym == Chars("g", "y", "m")
Run == Chars("r", "u", "n")
Swim == Str(<<"s", "w", "i", "m">>)

LA == Word("a")
LB == Word("b")
LC == Word("c")
LD == Word("d")
ListIds == {LA, LB, LC, LD}

\* Four valid payloads: a tag that merely contains "gym", a tag that is
\* "gym" in another case and from another source, two tags of another type,
\* and no tags at all.
ListPayloads ==
    {[MinimalEvent EXCEPT !.id = LA,
         !.tags = Arr(<<Str(<<"g", "y", "m", "n", "a", "s", "t", "i", "c", "s">>)>>),
         !.timestamp = Word("2023-12-31T00:00:00Z")],
     [MinimalEvent EXCEPT !.id = LB, !.tags = Arr(<<Chars("G", "y", "m")>>),
         !.source = Word("import")],
     [MinimalEvent EXCEPT !.id = LC, !.tags = Arr(<<Run, Gym>>),
         !.type = Word("note")],
     [MinimalEvent EXCEPT !.id = LD, !.timestamp = Word("1999-01-01T00:00:00Z")]}

TagFilters ==
    {Undef, Arr(<<>>), Arr(<<Gym>>), Arr(<<Swim, Run>>), Arr(<<Swim, Gym>>),
     Arr(<<Str(<<"_">>)>>), Arr(<<Str(<<"r", "%", "m">>)>>)}

ListOptions ==
    {[NoOptions EXCEPT !.tags = t, !.source = so, !.type = ty, !.limit = li] :
        t \in TagFilters, so \in {Undef, MinimalEvent.source},
        ty \in {Undef, MinimalEvent.type}, li \in {Undef, Num(1)}}
    \cup
    {[NoOptions EXCEPT !.tags = t, !.startDate = sd, !.endDate = ed, !.offset = off] :
        t \in {Undef, Arr(<<Gym>>)},
        sd \in {Undef, MinimalEvent.timestamp},
        ed \in {Undef, MinimalEvent.timestamp},
        off \in {Undef, Num(1)}}

\* A call of eventManager.getEvents(options).
GetEventsCall(options) ==
    /\ \E rows \in GetEvents(events, options) :
          listed' = [options |-> options, rows |-> rows]
    /\ lastOp' = [NoOp EXCEPT !.op = "list"]
    /\ UNCHANGED <<events, now>>
    /\ UNCHANGED resolution
    /\ UNCHANGED pluginVars

ListInit ==
    /\ events = [id \in ListIds |-> NoRow]
    /\ now = 0
    /\ lastOp = NoOp
    /\ listed = NoListing
    /\ resolution = NoResolution

ListNext ==
    \/ \E eventData \in ListPayloads : CreateEventCall(eventData)
    \/ \E id \in ListIds : DeleteEventReq(id)
    \/ \E options \in ListOptions : GetEventsCall(options)

(***************************************************************************)
(* getEvents claims                                                        *)
(***************************************************************************)

ListedIds == {listed.rows[i].id : i \in 1..Len(listed.rows)}

\* text contains part, character for character.
Contains(text, part) ==
    \E i \in 0..(Len(text) - Len(part)) : SubSeq(text, i + 1, i + Len(part)) = part

\* text contains part when letters are compared without regard to case.
ContainsFolded(text, part) ==
    \E i \in 0..(Len(text) - Len(part)) :
        \A k \in 1..Len(part) : Lower(text[i + k]) = Lower(part[k])

HasWildcard(part) == \E k \in 1..Len(part) : part[k] \in {"%", "_"}

\* The filters other than tags, read off the stored row.
OtherFiltersHold(row, options) ==
    /\ options.source # Undef => row.source = options.source
    /\ options.type # Undef => row.type = options.type
    /\ options.startDate # Undef => LexRank(row.timestamp) >= LexRank(options.startDate)
    /\ options.endDate # Undef => LexRank(row.timestamp) <= LexRank(options.endDate)

TagsGiven(options) == options.tags # Undef /\ options.tags.a # <<>>

\* The ids a listing is to hold when the tag filter is a substring test.
ExpectedBySubstring(options) ==
    {id \in ListIds :
        /\ Stored(events, id)
        /\ OtherFiltersHold(events[id], options)
        /\ TagsGiven(options) =>
              \E i \in 1..Len(options.tags.a) :
                  Contains(events[id].tags.s, options.tags.a[i].s)}

\* The ids a listing is to hold when the tag filter is the LIKE '%value%'
\* test: for a value without % and _ a substring test that ignores the case
\* of ASCII letters, otherwise the value is a LIKE pattern.
ExpectedByLike(options) ==
    {id \in ListIds :
        /\ Stored(events, id)
        /\ OtherFiltersHold(events[id], options)
        /\ TagsGiven(options) =>
              \E i \in 1..Len(options.tags.a) :
                  IF HasWildcard(options.tags.a[i].s)
                  THEN Like(<<"%">> \o options.tags.a[i].s \o <<"%">>, events[id].tags.s)
                  ELSE ContainsFolded(events[id].tags.s, options.tags.a[i].s)}

PageSize(options, n) ==
    LET limit == IF options.limit = Undef THEN DefaultLimit ELSE options.limit.n
        offset == IF options.offset = Undef THEN 0 ELSE options.offset.n
        rest == IF n > offset THEN n - offset ELSE 0
    IN IF rest < limit THEN rest ELSE limit

\* C10 as stated: a listing holds only records that pass the source, type
\* and date filters and whose serialized tags contain one of the filter's
\* values as a substring, and, cut to the page, all of them.
C10_TagsSubstring ==
    lastOp.op = "list" =>
        /\ ListedIds \subseteq ExpectedBySubstring(listed.options)
        /\ Len(listed.rows) =
              PageSize(listed.options, Cardinality(ExpectedBySubstring(listed.options)))

\* C10 amended: a listing holds only records that pass the source, type and
\* date filters and whose serialized tags match LIKE '%value%' for one of
\* the filter's values (letters match in either case, % and _ in a value
\* are wildcards), and, cut to the page, all of them, each once.
C10_TagsLike ==
    lastOp.op = "list" =>
        /\ ListedIds \subseteq ExpectedByLike(listed.options)
        /\ Cardinality(ListedIds) = Len(listed.rows)
        /\ Len(listed.rows) =
              PageSize(listed.options, Cardinality(ExpectedByLike(listed.options)))

\* C10 witness: with all four records stored, the filter tags [swim, gym]
\* and source manual lists the record tagged gymnastics and the record
\* tagged run and gym, and leaves out the record from another source and
\* the record without tags.
C10_Witness ==
    /\ lastOp.op = "list"
    /\ \A id \in ListIds : Stored(events, id)
    /\ listed.options = [NoOptions EXCEPT !.tags = Arr(<<Swim, Gym>>),
                                          !.source = MinimalEvent.source]
    /\ ListedIds = {LA, LC}

(***************************************************************************)
(* Plugin runs: runPlugin, POST /:id/run, the cron callback, lastRun       *)
(***************************************************************************)

\* What a child process can end with: an exit code, or null when a signal
\* ended it.
ExitCodes == {Num(0), Num(1), Num(2), Null}

\* The code of the 'close' event that follows a failed spawn (-errno).
SpawnFailCode == Num(0 - 2)

\* Chunks a child writes to stdout and to stderr.
StdoutChunks == {"out"}
StderrChunks == {"boom"}

\* Chunks captured from one stream over a run of the model.
MaxChunks == 1

CodeText(code) == IF code = Null THEN "null" ELSE ToString(code.n)

\* new Error(`Plugin failed with exit code ${code}: ${stderr}`)
ExecutionError(code, stderr) ==
    [name |-> "Error",
     message |-> <<"Plugin failed with exit code ", CodeText(code), ": ">> \o stderr]

\* The error of the 'error' event when the subprocess cannot be started.
SpawnError == [name |-> "Error", message |-> <<"spawn node ENOENT">>]

\* The promise runPlugin returns, at spawn: child running, nothing
\* captured, not settled.  config is the plugin.json the caller read.
Spawned(kind, p, config) ==
    [kind |-> kind, id |-> p, config |-> config, child |-> "running",
     stdout |-> <<>>, stderr |-> <<>>, code |-> Undef,
     promise |-> "pending", value |-> Undef,
     lastRunCalls |-> 0, lastRunPending |-> 0, lastRunFailed |-> FALSE,
     answer |-> NoResp]

\* resolve and reject settle a promise once; later calls do nothing.
Settle(r, how, value) ==
    IF r.promise = "pending" THEN [r EXCEPT !.promise = how, !.value = value]
    ELSE r

\* A close handler that resolves whatever the exit code is.
OnClose_AlwaysResolve(r, code) ==
    Settle([r EXCEPT !.child = "closed", !.code = code,
                     !.lastRunCalls = @ + 1, !.lastRunPending = @ + 1],
           "resolved",
           [success |-> TRUE, stdout |-> r.stdout, stderr |-> r.stderr,
            exitCode |-> code])

\* A close handler that does not call updatePluginLastRun for a non-zero code.
OnClose_LastRunOnSuccess(r, code) ==
    IF code = Num(0)
    THEN Settle([r EXCEPT !.child = "closed", !.code = code,
                          !.lastRunCalls = @ + 1, !.lastRunPending = @ + 1],
                "resolved",
                [success |-> TRUE, stdout |-> r.stdout, stderr |-> r.stderr,
                 exitCode |-> code])
    ELSE Settle([r EXCEPT !.child = "closed", !.code = code],
                "rejected", ExecutionError(code, r.stderr))

\* child.on('close', code): call updatePluginLastRun (not awaited), then
\* resolve with the captured output when code === 0, reject otherwise.
OnClose(r, code) ==
    LET called == [r EXCEPT !.child = "closed", !.code = code,
                            !.lastRunCalls = @ + 1, !.lastRunPending = @ + 1]
    IN IF code = Num(0)
       THEN Settle(called, "resolved",
                   [success |-> TRUE, stdout |-> r.stdout, stderr |-> r.stderr,
                    exitCode |-> code])
       ELSE Settle(called, "rejected", ExecutionError(code, r.stderr))

\* child.on('error', error): reject(error).
OnError(r, error) == Settle([r EXCEPT !.child = "errored"], "rejected", error)

\* What the awaiting caller does once the promise has settled: POST /:id/run
\* answers 200 with the result or, from its catch, 500 with the message; the
\* cron callback only logs.  r.answer keeps the response sent for the run.
RunResponse(r) ==
    IF r.promise = "resolved"
    THEN [op |-> "run", id |-> r.id, status |-> 200,
          body |-> [success |-> TRUE, plugin |-> r.id, result |-> r.value]]
    ELSE [op |-> "run", id |-> r.id, status |-> 500,
          body |-> [error |-> r.value.message]]

Answered(r, before) ==
    IF r.kind = "manual" /\ before.promise = "pending" /\ r.promise # "pending"
    THEN [r EXCEPT !.answer = RunResponse(r)]
    ELSE r

\* No run is in progress: none was started, or the last one has closed and
\* its lastRun update is done.
RunIdle ==
    IF run.kind = "none" THEN TRUE
    ELSE run.child = "closed" /\ run.lastRunPending = 0

\* The config object JSON.parse gives for a readable descriptor.
ConfigOf(d) == [enabled |-> d.enabled, schedule |-> d.schedule, lastRun |-> d.lastRun]

\* POST /api/plugins/:id/run up to the await of runPlugin: 404 when the
\* directory is not there, 500 when plugin.json cannot be read or parsed,
\* 400 when the main file is not there, otherwise spawn.
RunPluginRoute(p) ==
    /\ RunIdle
    /\ IF disk[p].dir # "dir"
       THEN /\ resp' = [op |-> "run", id |-> p, status |-> 404]
            /\ UNCHANGED run
       ELSE IF disk[p].file # "ok"
       THEN /\ resp' = [op |-> "run", id |-> p, status |-> 500]
            /\ UNCHANGED run
       ELSE IF disk[p].index = "none"
       THEN /\ resp' = [op |-> "run", id |-> p, status |-> 400]
            /\ UNCHANGED run
       ELSE /\ run' = Spawned("manual", p, ConfigOf(disk[p]))
            /\ resp' = NoResp
    /\ UNCHANGED <<disk, activeJobs, jobs, started, reqs>>
    /\ UNCHANGED storeSide

\* The callback cron.schedule was given fires for a job of the plugin that
\* has not been stopped: runPlugin with the config captured at start.
ScheduledRun(p) ==
    /\ RunIdle
    /\ \E j \in LiveJobs(p) :
          run' = Spawned("scheduled", p,
                         [enabled |-> "true", schedule |-> jobs[j].schedule,
                          lastRun |-> NoLastRun])
    /\ resp' = NoResp
    /\ UNCHANGED <<disk, activeJobs, jobs, started, reqs>>
    /\ UNCHANGED storeSide

\* child.stdout.on('data') / child.stderr.on('data'): append the chunk.
ChildData(stream, chunk) ==
    /\ run.kind # "none"
    /\ run.child = "running"
    /\ Len(run[stream]) < MaxChunks
    /\ run' = [run EXCEPT ![stream] = Append(@, chunk)]
    /\ UNCHANGED <<disk, activeJobs, jobs, started, resp, reqs>>
    /\ UNCHANGED storeSide

\* A close handler after which a plugin that failed is taken off the
\* schedule.
ChildClose_StopOnFailure(code) ==
    /\ run.kind # "none"
    /\ run.child = "running"
    /\ \E r \in {Answered(OnClose(run, code), run)} :
          /\ run' = r
          /\ resp' = IF r.answer # run.answer THEN r.answer ELSE resp
    /\ \E s1 \in {IF code = Num(0) THEN [jobs |-> jobs, active |-> activeJobs]
                   ELSE StopScheduledJob([jobs |-> jobs, active |-> activeJobs], run.id)} :
          /\ jobs' = s1.jobs
          /\ activeJobs' = s1.active
    /\ UNCHANGED <<disk, started, reqs>>
    /\ UNCHANGED storeSide

\* The subprocess ends: 'close' with its exit code (null for a signal).
ChildClose(code) ==
    /\ run.kind # "none"
    /\ run.child = "running"
    /\ \E r \in {Answered(OnClose(run, code), run)} :
          /\ run' = r
          /\ resp' = IF r.answer # run.answer THEN r.answer ELSE resp
    /\ UNCHANGED <<disk, activeJobs, jobs, started, reqs>>
    /\ UNCHANGED storeSide

\* The subprocess cannot be started: 'error'.
ChildSpawnError ==
    /\ run.kind # "none"
    /\ run.child = "running"
    /\ run.stdout = <<>> /\ run.stderr = <<>>
    /\ \E r \in {Answered(OnError(run, SpawnError), run)} :
          /\ run' = r
          /\ resp' = IF r.answer # run.answer THEN r.answer ELSE resp
    /\ UNCHANGED <<disk, activeJobs, jobs, started, reqs>>
    /\ UNCHANGED storeSide

\* After 'error' for a failed spawn the child process object emits 'close'
\* as well, with the negative errno as code.
ChildCloseAfterError ==
    /\ run.kind # "none"
    /\ run.child = "errored"
    /\ \E r \in {Answered(OnClose(run, SpawnFailCode), run)} :
          /\ run' = r
          /\ resp' = IF r.answer # run.answer THEN r.answer ELSE resp
    /\ UNCHANGED <<disk, activeJobs, jobs, started, reqs>>
    /\ UNCHANGED storeSide

\* updatePluginLastRun(pluginId), running after the close handler returned:
\* read plugin.json, set lastRun to the time, write it back; any error is
\* logged and swallowed.
UpdatePluginLastRun ==
    /\ run.kind # "none"
    /\ run.lastRunPending > 0
    /\ IF Readable(run.id)
       THEN /\ disk' = [disk EXCEPT ![run.id].lastRun = IsoTimes[now + 1]]
            /\ run' = [run EXCEPT !.lastRunPending = @ - 1]
       ELSE /\ run' = [run EXCEPT !.lastRunPending = @ - 1, !.lastRunFailed = TRUE]
            /\ UNCHANGED disk
    /\ UNCHANGED <<activeJobs, jobs, started, resp, reqs>>
    /\ UNCHANGED storeSide

\* Someone edits a plugin.json by hand into text JSON.parse rejects.
DescriptorCorrupted(p) ==
    /\ Readable(p)
    /\ run.kind # "none" /\ run.id = p /\ run.child = "running"
    /\ disk' = [disk EXCEPT ![p].file = "corrupt"]
    /\ UNCHANGED <<activeJobs, jobs, started, resp, run, reqs>>
    /\ UNCHANGED storeSide

RunDirs ==
    {PluginDir([file |-> "ok", enabled |-> "true", schedule |-> "0 * * * *"], "own"),
     PluginDir([file |-> "ok", enabled |-> "false", schedule |-> "absent"], "own"),
     PluginDir([file |-> "ok", enabled |-> "true", schedule |-> "absent"], "none"),
     PluginDir([file |-> "corrupt", enabled |-> "absent", schedule |-> "absent"], "own"),
     NoDir}

RunInit ==
    /\ disk \in [PluginIds -> RunDirs]
    /\ activeJobs = [p \in PluginIds |-> 0]
    /\ jobs = <<>>
    /\ started = FALSE
    /\ resp = NoResp
    /\ run = NoRun
    /\ reqs = NoRequests

RunNext ==
    \/ InitializeScheduledJobs
    \/ \E p \in PluginIds : RunPluginRoute(p)
    \/ \E p \in PluginIds : ScheduledRun(p)
    \/ \E chunk \in StdoutChunks : ChildData("stdout", chunk)
    \/ \E chunk \in StderrChunks : ChildData("stderr", chunk)
    \/ \E code \in ExitCodes : ChildClose(code)
    \/ ChildSpawnError
    \/ ChildCloseAfterError
    \/ UpdatePluginLastRun
    \/ \E p \in PluginIds : DescriptorCorrupted(p)
    \/ Tick

(***************************************************************************)
(* Plugin run claims                                                       *)
(***************************************************************************)

RunClosed == run.kind # "none" /\ run.child = "closed"
SpawnFailed == RunClosed /\ run.code = SpawnFailCode

\* C11: a run is resolved exactly when its subprocess exited with code 0,
\* and then with the captured stdout and stderr and the exit code; a run
\* whose subprocess exited with any other code is rejected with an error
\* whose message carries the code and the captured stderr; a manual run
\* that was rejected is answered 500, and 200 is answered only for a
\* resolved run.
C11_RunOutcome ==
    /\ run.kind # "none" =>
          /\ run.promise = "resolved" <=> (RunClosed /\ run.code = Num(0))
          /\ run.promise = "resolved" =>
                run.value = [success |-> TRUE, stdout |-> run.stdout,
                             stderr |-> run.stderr, exitCode |-> Num(0)]
          /\ (RunClosed /\ run.code # Num(0) /\ ~SpawnFailed) =>
                /\ run.promise = "rejected"
                /\ run.value.message =
                      <<"Plugin failed with exit code ", CodeText(run.code), ": ">>
                          \o run.stderr
          /\ (run.kind = "manual" /\ run.promise = "rejected") =>
                (run.answer.op = "run" /\ run.answer.id = run.id
                 /\ run.answer.status = 500)
    /\ (resp.op = "run" /\ resp.status = 200) =>
          (run.promise = "resolved" /\ resp.id = run.id
           /\ resp.body.result = run.value)

\* C11 witness: a manual run whose subprocess wrote to stderr and exited
\* with code 2 was answered 500 with the message that carries both.
C11_Witness ==
    /\ run.kind = "manual" /\ RunClosed
    /\ run.code = Num(2) /\ run.stderr = <<"boom">>
    /\ resp.op = "run" /\ resp.status = 500
    /\ resp.body.error = <<"Plugin failed with exit code ", "2", ": ", "boom">>

\* C12: a run whose subprocess has closed, manual or scheduled, after a
\* zero exit, a non-zero exit, a signal or a failed spawn, has called
\* updatePluginLastRun exactly once; and the step in which that update runs,
\* successfully or not, changes neither the settled promise nor the
\* response sent.
C12_LastRunAlwaysTriggered ==
    /\ [](RunClosed => run.lastRunCalls = 1)
    /\ [][(run.kind # "none" /\ run'.kind # "none"
           /\ run'.lastRunPending < run.lastRunPending) =>
             /\ run'.promise = run.promise
             /\ run'.value = run.value
             /\ run'.answer = run.answer
             /\ resp' = resp]_vars

\* C12 witness: a scheduled run could not start its subprocess; the update
\* of lastRun was called, ran and failed, and the run stays rejected with
\* the spawn error.
C12_Witness ==
    /\ run.kind = "scheduled" /\ SpawnFailed
    /\ run.lastRunCalls = 1 /\ run.lastRunPending = 0 /\ run.lastRunFailed
    /\ run.promise = "rejected" /\ run.value = SpawnError

\* C24: a step in which a run fails (its subprocess closes with a code
\* other than 0, or cannot be started), and every later step of that failed
\* run, leaves the active-trigger map and every cron job as they were; and a
\* scheduled run that failed still has its own trigger registered and not
\* stopped.
C24_FailedRunKeepsTriggers ==
    /\ [][(run' # run /\ run'.kind # "none" /\ run'.promise = "rejected") =>
             (activeJobs' = activeJobs /\ jobs' = jobs)]_vars
    /\ [](run.kind = "scheduled" =>
             (run.promise = "rejected" =>
                 /\ activeJobs[run.id] # 0
                 /\ ~jobs[activeJobs[run.id]].stopped))

\* C24 witness: a scheduled run of a plugin has failed with exit code 1
\* and its lastRun update is done; the plugin's trigger and the other
\* plugin's trigger are registered and live.
C24_Witness ==
    /\ run.kind = "scheduled" /\ RunClosed /\ run.code = Num(1)
    /\ run.promise = "rejected" /\ run.lastRunPending = 0
    /\ \A p \in PluginIds : Cardinality(LiveJobs(p)) = 1 /\ activeJobs[p] # 0

(***************************************************************************)
(* Triggers stopped and started while a run is in flight                   *)
(***************************************************************************)

TriggerDirs ==
    {PluginDir([file |-> "ok", enabled |-> "true", schedule |-> "0 * * * *"], "own"),
     PluginDir([file |-> "ok", enabled |-> "false", schedule |-> "*/5 * * * *"], "own")}

TriggerInit ==
    /\ disk \in [PluginIds -> TriggerDirs]
    /\ activeJobs = [p \in PluginIds |-> 0]
    /\ jobs = <<>>
    /\ started = FALSE
    /\ resp = NoResp
    /\ run = NoRun
    /\ reqs = NoRequests

TriggerNext ==
    \/ InitializeScheduledJobs
    \/ \E p \in PluginIds : EnablePlugin(p)
    \/ \E p \in PluginIds : DisablePlugin(p)
    \/ \E p \in PluginIds : ScheduledRun(p)
    \/ \E chunk \in StdoutChunks : ChildData("stdout", chunk)
    \/ \E code \in ExitCodes : ChildClose(code)
    \/ ChildSpawnError
    \/ ChildCloseAfterError
    \/ UpdatePluginLastRun

\* A run is in flight: its subprocess has not closed.
InFlightRun == run.kind # "none" /\ run.child = "running"

\* C23: a scheduled run of a plugin starts only while the plugin has a
\* registered trigger that is not stopped, and after a disable the plugin
\* has no live trigger at all; a step that removes a trigger from the map
\* leaves the run in flight exactly as it was; and every run that closes,
\* whatever was stopped meanwhile, has had its lastRun update called and its
\* result settled.
C23_StopSparesRunInFlight ==
    /\ [][(RunIdle /\ run'.kind = "scheduled" /\ run'.child = "running") =>
             /\ activeJobs[run'.id] # 0
             /\ ~jobs[activeJobs[run'.id]].stopped]_vars
    /\ []((resp.op = "disable" /\ resp.status = 200) => LiveJobs(resp.id) = {})
    /\ [][(\E p \in PluginIds : activeJobs[p] # 0 /\ activeJobs'[p] = 0) =>
             run' = run]_vars
    /\ [](RunClosed => (run.lastRunCalls = 1 /\ run.promise # "pending"))

\* C23 witness: a scheduled run of a plugin is in flight, with output
\* captured, and a disable of that plugin has just been answered: the
\* plugin's trigger is gone from the map and stopped.
C23_Witness ==
    /\ InFlightRun /\ run.kind = "scheduled" /\ run.stdout # <<>>
    /\ resp.op = "disable" /\ resp.status = 200 /\ resp.id = run.id
    /\ activeJobs[run.id] = 0
    /\ \E j \in 1..Len(jobs) : jobs[j].plugin = run.id /\ jobs[j].stopped

(***************************************************************************)
(* The registry: POST /install, GET /, GET /:id                            *)
(***************************************************************************)

\* Bodies of POST /install: source and name, either of which may be absent.
InstallBodies == [source : {"absent", "https://example.org/p.git"},
                  name : {"absent"} \cup PluginIds]

\* What install writes: plugin.json with enabled: false and neither a
\* schedule nor a lastRun, and the generated index.js.
InstalledDir ==
    [dir |-> "dir", file |-> "ok", enabled |-> "false", schedule |-> "absent",
     lastRun |-> NoLastRun, index |-> "stub"]

\* POST /api/plugins/install: 400 when source or name is falsy; otherwise
\* mkdir(recursive), write plugin.json, write index.js, 201.
InstallPlugin(body) ==
    /\ IF ~Truthy(body.source) \/ ~Truthy(body.name)
       THEN /\ resp' = [op |-> "install", id |-> body.name, status |-> 400]
            /\ UNCHANGED disk
       ELSE /\ disk' = [disk EXCEPT ![body.name] = InstalledDir]
            /\ resp' = [op |-> "install", id |-> body.name, status |-> 201]
    /\ UNCHANGED <<activeJobs, jobs, started, run, reqs>>
    /\ UNCHANGED storeSide

\* The entry GET / pushes for one subdirectory: the descriptor's fields with
\* their defaults, or the degraded entry when plugin.json cannot be read or
\* parsed.
ListEntry(p) ==
    IF disk[p].file = "ok"
    THEN [id |-> p,
          schedule |-> IF Truthy(disk[p].schedule) THEN disk[p].schedule ELSE "null",
          enabled |-> disk[p].enabled # "false",
          lastRun |-> IF Truthy(disk[p].lastRun) THEN disk[p].lastRun ELSE "null",
          error |-> "absent"]
    ELSE [id |-> p, schedule |-> "absent", enabled |-> FALSE, lastRun |-> "absent",
          error |-> "Invalid configuration"]

Subdirectories == {p \in PluginIds : disk[p].dir = "dir"}

\* GET /api/plugins.  statFails is the directory entry whose fs.stat
\* rejects during this listing ("none": every stat succeeds); the stat is
\* outside the per-plugin try, so its rejection reaches the route's catch.
ListPlugins(statFails) ==
    /\ statFails \in Subdirectories \cup {"none"}
    /\ resp' = IF statFails # "none"
               THEN [op |-> "list", id |-> statFails, status |-> 500, body |-> {}]
               ELSE [op |-> "list", id |-> "none", status |-> 200,
                     body |-> {ListEntry(p) : p \in Subdirectories}]
    /\ UNCHANGED <<disk, activeJobs, jobs, started, run, reqs>>
    /\ UNCHANGED storeSide

\* GET /api/plugins/:id: 404 when the stat of the directory rejects, 500
\* (the route's catch) when plugin.json cannot be read or parsed.
GetPlugin(p) ==
    /\ resp' = IF disk[p].dir # "dir"
               THEN [op |-> "get", id |-> p, status |-> 404]
               ELSE IF disk[p].file # "ok"
               THEN [op |-> "get", id |-> p, status |-> 500]
               ELSE [op |-> "get", id |-> p, status |-> 200,
                     body |-> [ListEntry(p) EXCEPT !.error = "absent"],
                     hasMainFile |-> disk[p].index # "none"]
    /\ UNCHANGED <<disk, activeJobs, jobs, started, run, reqs>>
    /\ UNCHANGED storeSide

RegistryDirs ==
    {PluginDir([file |-> "ok", enabled |-> "true", schedule |-> "0 * * * *"], "own"),
     PluginDir([file |-> "ok", enabled |-> "absent", schedule |-> "absent"], "own"),
     PluginDir([file |-> "missing", enabled |-> "absent", schedule |-> "absent"], "own"),
     PluginDir([file |-> "corrupt", enabled |-> "absent", schedule |-> "absent"], "own"),
     NoDir}

\* The config updates sent next to the registry requests.
RegistryConfigUpdates ==
    {[enabled |-> "true", schedule |-> "*/5 * * * *"],
     [enabled |-> "nochange", schedule |-> "null"]}

RegistryInit ==
    /\ disk \in [PluginIds -> RegistryDirs]
    /\ activeJobs = [p \in PluginIds |-> 0]
    /\ jobs = <<>>
    /\ started = FALSE
    /\ resp = NoResp
    /\ run = NoRun
    /\ reqs = NoRequests

RegistryNext ==
    \/ InitializeScheduledJobs
    \/ \E body \in InstallBodies : InstallPlugin(body)
    \/ \E statFails \in PluginIds \cup {"none"} : ListPlugins(statFails)
    \/ \E p \in PluginIds : GetPlugin(p)
    \/ \E p \in PluginIds : EnablePlugin(p)
    \/ \E p \in PluginIds : DisablePlugin(p)
    \/ \E p \in PluginIds : \E u \in RegistryConfigUpdates : UpdatePluginConfig(p, u)

(***************************************************************************)
(* Registry claims                                                         *)
(***************************************************************************)

\* C13: an install request naming a plugin directory that exists fails and
\* leaves the disk as it was; an install request without a source or
\* without a name fails and leaves the disk as it was.
C13_InstallRejectsExisting ==
    [][(resp'.op = "install" /\ (resp' # resp \/ disk' # disk)) =>
          /\ (resp'.id \in PluginIds /\ disk[resp'.id].dir = "dir") =>
                (resp'.status >= 400 /\ disk' = disk)
          /\ resp'.status >= 400 => disk' = disk]_vars

\* C14: when the last response is a successful install of a name, the
\* descriptor of that name on disk has enabled false and the active-trigger
\* map has no entry for it.
C14_InstalledIsDisabled ==
    (resp.op = "install" /\ resp.status = 201) =>
        /\ disk[resp.id].enabled = "false"
        /\ activeJobs[resp.id] = 0

\* C15: every listing succeeds and has exactly one entry for each plugin
\* subdirectory: the degraded entry (enabled false, error set) when the
\* descriptor cannot be read or parsed, a regular entry otherwise.
C15_ListingNeverAborts ==
    resp.op = "list" =>
        /\ resp.status = 200
        /\ \A p \in Subdirectories :
              \E e \in resp.body :
                  /\ e.id = p
                  /\ \A f \in resp.body : f.id = p => f = e
                  /\ Readable(p) => e.error = "absent"
                  /\ ~Readable(p) => (~e.enabled /\ e.error # "absent")
        /\ \A e \in resp.body : e.id \in Subdirectories

\* C16: get, enable, disable and config update answer 404 when the plugin
\* directory is missing and when the directory is there without a
\* descriptor file.
C16_MissingPluginIsNotFound ==
    (resp.op \in {"get", "enable", "disable", "config"}
     /\ (disk[resp.id].dir # "dir" \/ disk[resp.id].file = "missing")) =>
        resp.status = 404

\* C28: right after the startup scan, every plugin that list and get
\* report as enabled with a non-null schedule has an entry in the
\* active-trigger map.
C28_ReportedEnabledHasTrigger ==
    (started /\ resp = NoResp) =>
        \A p \in Subdirectories :
            (ListEntry(p).enabled /\ ListEntry(p).schedule \notin {"null", "absent"})
                => activeJobs[p] # 0

(***************************************************************************)
(* The startup scan with the failures its entries can meet                 *)
(***************************************************************************)

\* The orders in which readdir can return the entries.
ReaddirOrders == {<<"p1", "p2">>, <<"p2", "p1">>}

\* The for-loop of initializeScheduledJobs over the entries files[i..]:
\* the stat of an entry is outside the per-plugin try, so its rejection
\* ends the loop in the outer catch; readFile, JSON.parse and
\* startScheduledJob (cron.schedule throws on an expression it rejects,
\* after the old job was stopped) are inside it, so their errors are logged
\* and the loop goes on.  st = [jobs, active, logged, aborted].
RECURSIVE ScanEntries(_, _, _, _, _)
ScanEntries(st, files, i, statFails, throws) ==
    IF i > Len(files) THEN st
    ELSE LET p == files[i] IN
         IF disk[p].dir # "dir" THEN ScanEntries(st, files, i + 1, statFails, throws)
         ELSE IF p = statFails THEN [st EXCEPT !.aborted = p]
         ELSE IF ~Readable(p)
         THEN ScanEntries([st EXCEPT !.logged = @ \cup {p}], files, i + 1,
                          statFails, throws)
         ELSE IF ~(Truthy(disk[p].enabled) /\ Truthy(disk[p].schedule))
         THEN ScanEntries(st, files, i + 1, statFails, throws)
         ELSE IF p \in throws
         THEN LET s1 == StopScheduledJob([jobs |-> st.jobs, active |-> st.active], p)
              IN ScanEntries([st EXCEPT !.jobs = s1.jobs, !.active = s1.active,
                                        !.logged = @ \cup {p}],
                             files, i + 1, statFails, throws)
         ELSE LET s1 == StartScheduledJob([jobs |-> st.jobs, active |-> st.active],
                                          p, disk[p])
              IN ScanEntries([st EXCEPT !.jobs = s1.jobs, !.active = s1.active],
                             files, i + 1, statFails, throws)

\* initializeScheduledJobs() at module load.  files is the readdir result,
\* statFails the entry whose fs.stat rejects ("none": no stat rejects),
\* throws the plugins whose schedule cron.schedule rejects.  resp keeps what
\* the scan logged.
StartupScan(files, statFails, throws) ==
    /\ ~started
    /\ \E s1 \in {ScanEntries([jobs |-> jobs, active |-> activeJobs,
                               logged |-> {}, aborted |-> "none"],
                              files, 1, statFails, throws)} :
          /\ jobs' = s1.jobs
          /\ activeJobs' = s1.active
          /\ resp' = [op |-> "scan", id |-> s1.aborted, status |-> 0,
                      logged |-> s1.logged]
    /\ started' = TRUE
    /\ UNCHANGED <<disk, run, reqs>>
    /\ UNCHANGED storeSide

ScanInit ==
    /\ disk \in [PluginIds -> {PluginDir(d, "own") : d \in Descriptors} \cup {NoDir}]
    /\ activeJobs = [p \in PluginIds |-> 0]
    /\ jobs = <<>>
    /\ started = FALSE
    /\ resp = NoResp
    /\ run = NoRun
    /\ reqs = NoRequests

ScanNext ==
    \E files \in ReaddirOrders : \E statFails \in PluginIds \cup {"none"} :
        \E throws \in SUBSET PluginIds : StartupScan(files, statFails, throws)

\* C25: when the scan has ended, every plugin directory other than those
\* that met a failure (an entry that could not be read, a descriptor that
\* could not be read or parsed, a schedule that could not be scheduled) has
\* a trigger if its descriptor is enabled with a schedule, one job was
\* created for it, and no other plugin has a trigger.
C25_ScanToleratesFailures ==
    (started /\ resp.op = "scan") =>
        \A p \in Subdirectories :
            (p # resp.id /\ p \notin resp.logged) =>
                IF Readable(p) /\ Truthy(disk[p].enabled) /\ Truthy(disk[p].schedule)
                THEN /\ activeJobs[p] # 0
                     /\ Cardinality({j \in 1..Len(jobs) : jobs[j].plugin = p}) = 1
                ELSE activeJobs[p] = 0

(***************************************************************************)
(* resolveURI                                                              *)
(***************************************************************************)

\* life:// identifiers handed to resolveURI, with the hints parseURI reads
\* off them; the last one is not a life:// URI at all.
URIs ==
    {[text |-> "life://manual/health.gym/1", wellFormed |-> TRUE,
      source |-> MinimalEvent.source, type |-> MinimalEvent.type],
     [text |-> "life://import/note/2", wellFormed |-> TRUE,
      source |-> Word("import"), type |-> Word("note")],
     [text |-> "not-a-uri", wellFormed |-> FALSE, source |-> Undef, type |-> Undef]}

\* What this.resolver.resolveURI resolves with, and the errors in play.
ExternalEvent == [from |-> "resolver"]
ResolverError == [name |-> "Error", message |-> <<"resolver failed">>]
ParseError == [name |-> "Error", message |-> <<"Invalid life:// URI">>]
DatabaseError == [name |-> "Error", message |-> <<"SQLITE_ERROR">>]

\* resolveURI(uri): the resolver's result when it resolves; in the catch,
\* parseURI (not guarded), getEvents with the hints and limit 1 (not
\* guarded), the first row when there is one, else the caught error.
\* resolverOk, parseThrows and dbFails are what the resolver, parseURI and
\* the database do in this call.
ResolveURI(table, uri, resolverOk, parseThrows, dbFails) ==
    IF resolverOk
    THEN {[outcome |-> "returned", value |-> ExternalEvent]}
    ELSE IF parseThrows
    THEN {[outcome |-> "threw", value |-> ParseError]}
    ELSE IF dbFails
    THEN {[outcome |-> "threw", value |-> DatabaseError]}
    ELSE {IF rows # <<>>
          THEN [outcome |-> "returned", value |-> rows[1]]
          ELSE [outcome |-> "threw", value |-> ResolverError] :
             rows \in GetEvents(table, [NoOptions EXCEPT !.source = uri.source,
                                                         !.type = uri.type,
                                                         !.limit = Num(1)])}

\* A call of eventManager.resolveURI(uri).
ResolveURICall(uri, resolverOk, parseThrows, dbFails) ==
    /\ resolverOk => (~parseThrows /\ ~dbFails)
    /\ parseThrows => (~uri.wellFormed /\ ~dbFails)
    /\ \E r \in ResolveURI(events, uri, resolverOk, parseThrows, dbFails) :
          resolution' = [uri |-> uri, resolverFailed |-> ~resolverOk,
                         outcome |-> r.outcome, value |-> r.value]
    /\ lastOp' = [NoOp EXCEPT !.op = "resolve"]
    /\ listed' = NoListing
    /\ UNCHANGED <<events, now>>
    /\ UNCHANGED pluginVars

ResolveNext ==
    \/ \E eventData \in {MinimalEvent, FullEvent} : CreateEventCall(eventData)
    \/ \E id \in EventIds : DeleteEventReq(id)
    \/ \E uri \in URIs : \E resolverOk, parseThrows, dbFails \in BOOLEAN :
          ResolveURICall(uri, resolverOk, parseThrows, dbFails)

\* The stored events the hints of a URI select.
HintMatches(uri) ==
    {id \in EventIds :
        /\ Stored(events, id)
        /\ uri.source # Undef => events[id].source = uri.source
        /\ uri.type # Undef => events[id].type = uri.type}

\* C18: a resolveURI call returns the resolver's result when the resolver
\* succeeds; when the resolver fails it returns a stored event that matches
\* the URI's source and type if there is one, and otherwise throws the
\* resolver's error and no other.
C18_FallbackKeepsResolverError ==
    lastOp.op = "resolve" =>
        /\ ~resolution.resolverFailed =>
              (resolution.outcome = "returned" /\ resolution.value = ExternalEvent)
        /\ (resolution.resolverFailed /\ HintMatches(resolution.uri) # {}) =>
              /\ resolution.outcome = "returned"
              /\ \E id \in HintMatches(resolution.uri) :
                    resolution.value = GetEvent(events, id)
        /\ (resolution.resolverFailed /\ HintMatches(resolution.uri) = {}) =>
              (resolution.outcome = "threw" /\ resolution.value = ResolverError)

(***************************************************************************)
(* Overlapping requests: the handlers step by step                         *)
(*                                                                         *)
(* enable, disable and config update each await readFile, then await       *)
(* writeFile, then do their job bookkeeping synchronously; the startup     *)
(* scan awaits the readFile of each plugin.json and starts the job in the  *)
(* continuation.  Other handlers run between these steps.                  *)
(***************************************************************************)

\* Requests accepted over a run of the model, next to the startup scan.
MaxRequests == 2

\* The config updates sent while requests overlap: none of them empties
\* the schedule.
OverlapConfigUpdates ==
    {[enabled |-> "false", schedule |-> "nochange"],
     [enabled |-> "true", schedule |-> "*/5 * * * *"]}

\* The plugin id the overlapping requests are for; the scan reads every id.
OverlapIds == {"p1"}

NoUpdates == [enabled |-> "nochange", schedule |-> "nochange"]
NoConfig == [enabled |-> "absent", schedule |-> "absent", lastRun |-> NoLastRun]

\* initializeScheduledJobs() at its first await.
ScanRequest ==
    [op |-> "scan", id |-> "none", updates |-> NoUpdates, pc |-> "next",
     config |-> NoConfig, todo |-> PluginIds, overlapped |-> FALSE]

InFlight(r) == r.pc # "done"

\* A request arrives: the handler runs up to its readFile.
BeginRequest(op, p, updates) ==
    /\ Len(reqs) < MaxRequests + 1
    /\ LET meets(r) == InFlight(r) /\ r.op # "scan" /\ r.id = p
           marked == [i \in DOMAIN reqs |->
                         IF meets(reqs[i]) THEN [reqs[i] EXCEPT !.overlapped = TRUE]
                         ELSE reqs[i]]
       IN reqs' = Append(marked,
                         [op |-> op, id |-> p, updates |-> updates, pc |-> "reading",
                          config |-> NoConfig, todo |-> {},
                          overlapped |-> \E i \in DOMAIN reqs : meets(reqs[i])])
    /\ UNCHANGED <<disk, activeJobs, jobs, started, resp, run>>
    /\ UNCHANGED storeSide

\* What the handler makes of the config it read, before writing it back.
Changed(op, config, updates) ==
    IF op = "enable" THEN [config EXCEPT !.enabled = "true"]
    ELSE IF op = "disable" THEN [config EXCEPT !.enabled = "false"]
    ELSE IF op = "lastRun" THEN [config EXCEPT !.lastRun = IsoTimes[now + 1]]
    ELSE AssignConfig(config, updates)

\* readFile resolves: parse and change the config and call writeFile; or
\* the read rejects and the catch answers 500 (updatePluginLastRun's catch
\* only logs).
ReadStep(i) ==
    /\ i \in DOMAIN reqs
    /\ reqs[i].op # "scan" /\ reqs[i].pc = "reading"
    /\ IF Readable(reqs[i].id)
       THEN /\ reqs' = [reqs EXCEPT
                           ![i].config = Changed(reqs[i].op, ConfigOf(disk[reqs[i].id]),
                                                 reqs[i].updates),
                           ![i].pc = "writing"]
            /\ UNCHANGED resp
       ELSE /\ reqs' = [reqs EXCEPT ![i].pc = "done"]
            /\ resp' = IF reqs[i].op = "lastRun" THEN resp
                       ELSE [op |-> reqs[i].op, id |-> reqs[i].id, status |-> 500]
    /\ UNCHANGED <<disk, activeJobs, jobs, started, run>>
    /\ UNCHANGED storeSide

\* The writeFile puts the handler's config, every key of it, on disk;
\* updatePluginLastRun has nothing left to do after its write.
WriteStep(i) ==
    /\ i \in DOMAIN reqs
    /\ reqs[i].op # "scan" /\ reqs[i].pc = "writing"
    /\ disk' = [disk EXCEPT ![reqs[i].id].enabled = reqs[i].config.enabled,
                            ![reqs[i].id].schedule = reqs[i].config.schedule,
                            ![reqs[i].id].lastRun = reqs[i].config.lastRun]
    /\ reqs' = [reqs EXCEPT ![i].pc = IF reqs[i].op = "lastRun" THEN "done"
                                      ELSE "written"]
    /\ UNCHANGED <<activeJobs, jobs, started, resp, run>>
    /\ UNCHANGED storeSide

\* The job bookkeeping each handler does after its write.
Bookkeeping(st, r) ==
    IF r.op = "enable" THEN EnableJobs(st, r.id, r.config)
    ELSE IF r.op = "disable" THEN StopScheduledJob(st, r.id)
    ELSE ConfigJobs(st, r.id, r.config)

\* The await of writeFile resumes: job bookkeeping, then the response.
FinishStep(i) ==
    /\ i \in DOMAIN reqs
    /\ reqs[i].op # "scan" /\ reqs[i].pc = "written"
    /\ \E s1 \in {Bookkeeping([jobs |-> jobs, active |-> activeJobs], reqs[i])} :
          /\ jobs' = s1.jobs
          /\ activeJobs' = s1.active
    /\ resp' = [op |-> reqs[i].op, id |-> reqs[i].id, status |-> 200]
    /\ reqs' = [reqs EXCEPT ![i].pc = "done"]
    /\ UNCHANGED <<disk, started, run>>
    /\ UNCHANGED storeSide

\* The scan's readFile of the next plugin.json resolves (or rejects, which
\* is logged); when no entry is left the scan is over.
ScanReadStep(i) ==
    /\ i \in DOMAIN reqs
    /\ reqs[i].op = "scan" /\ reqs[i].pc = "next"
    /\ IF reqs[i].todo = {}
       THEN /\ reqs' = [reqs EXCEPT ![i].pc = "done"]
            /\ started' = TRUE
       ELSE /\ \E p \in reqs[i].todo :
                  reqs' = [reqs EXCEPT
                              ![i].id = p,
                              ![i].todo = @ \ {p},
                              ![i].config = IF Readable(p) THEN ConfigOf(disk[p])
                                            ELSE NoConfig,
                              ![i].pc = "read"]
            /\ UNCHANGED started
    /\ UNCHANGED <<disk, activeJobs, jobs, resp, run>>
    /\ UNCHANGED storeSide

\* The scan resumes with the config it read: startScheduledJob when it is
\* enabled and has a schedule.
ScanStartStep(i) ==
    /\ i \in DOMAIN reqs
    /\ reqs[i].op = "scan" /\ reqs[i].pc = "read"
    /\ \E s1 \in {EnableJobs([jobs |-> jobs, active |-> activeJobs],
                            reqs[i].id, reqs[i].config)} :
          /\ jobs' = s1.jobs
          /\ activeJobs' = s1.active
    /\ reqs' = [reqs EXCEPT ![i].pc = "next"]
    /\ UNCHANGED <<disk, started, resp, run>>
    /\ UNCHANGED storeSide

OverlapDirs ==
    {PluginDir([file |-> "ok", enabled |-> "true", schedule |-> "0 * * * *"], "own"),
     PluginDir([file |-> "ok", enabled |-> "false", schedule |-> "0 * * * *"], "own")}

OverlapInit ==
    /\ disk \in [PluginIds -> OverlapDirs]
    /\ activeJobs = [p \in PluginIds |-> 0]
    /\ jobs = <<>>
    /\ started = FALSE
    /\ resp = NoResp
    /\ run = NoRun
    /\ reqs = <<ScanRequest>>

OverlapNext ==
    \/ \E p \in OverlapIds : BeginRequest("enable", p, NoUpdates)
    \/ \E p \in OverlapIds : BeginRequest("disable", p, NoUpdates)
    \/ \E p \in OverlapIds : \E u \in OverlapConfigUpdates : BeginRequest("config", p, u)
    \/ \E i \in 1..(MaxRequests + 1) : ReadStep(i)
    \/ \E i \in 1..(MaxRequests + 1) : WriteStep(i)
    \/ \E i \in 1..(MaxRequests + 1) : FinishStep(i)
    \/ \E i \in 1..(MaxRequests + 1) : ScanReadStep(i)
    \/ \E i \in 1..(MaxRequests + 1) : ScanStartStep(i)

(***************************************************************************)
(* Overlap claims                                                          *)
(***************************************************************************)

AllCompleted == \A i \in DOMAIN reqs : ~InFlight(reqs[i])

\* C19: once the scan and every request have completed, a plugin id is in
\* the active-trigger map if and only if its descriptor on disk is enabled
\* with a non-empty schedule.
C19_QuiescentAgreement ==
    AllCompleted =>
        \A p \in PluginIds :
            (activeJobs[p] # 0) <=> (SchedulePresent(p) /\ disk[p].enabled = "true")

\* C20: whatever the interleaving, a plugin id has at most one live trigger
\* and that one is the map's entry; and a step changes the map's entry for
\* an id only as stop does (the entry's job is stopped, the entry removed)
\* or as start does (the entry's job, if any, is stopped and the entry is a
\* job created in this step).
C20_AtMostOneLiveTrigger ==
    /\ [](\A p \in PluginIds :
             /\ Cardinality(LiveJobs(p)) <= 1
             /\ \A j \in LiveJobs(p) : activeJobs[p] = j)
    /\ [][\A p \in PluginIds :
             activeJobs'[p] # activeJobs[p] =>
                 /\ activeJobs[p] # 0 => jobs'[activeJobs[p]].stopped
                 /\ activeJobs'[p] # 0 =>
                       /\ activeJobs'[p] = Len(jobs') /\ Len(jobs') = Len(jobs) + 1
                       /\ jobs'[activeJobs'[p]].plugin = p
                       /\ ~jobs'[activeJobs'[p]].stopped]_vars

\* C20 witness: two requests that start a job for the same id overlapped
\* and both completed: two jobs were created for the id, one is stopped,
\* one is live.
C20_Witness ==
    /\ AllCompleted
    /\ \E i, k \in DOMAIN reqs :
          /\ i < k
          /\ reqs[i].op \in {"enable", "config"} /\ reqs[k].op \in {"enable", "config"}
          /\ reqs[i].id = reqs[k].id
          /\ reqs[i].overlapped /\ reqs[k].overlapped
          /\ Cardinality(LiveJobs(reqs[i].id)) = 1
          /\ Cardinality({j \in 1..Len(jobs) : jobs[j].plugin = reqs[i].id}) >= 2

\* The lastRun update of a run that closes, next to the startup scan and
\* to enable and disable requests for the same plugin.
LastRunNext ==
    \/ \E p \in OverlapIds : BeginRequest("enable", p, NoUpdates)
    \/ \E p \in OverlapIds : BeginRequest("disable", p, NoUpdates)
    \/ \E p \in OverlapIds : BeginRequest("lastRun", p, NoUpdates)
    \/ \E i \in 1..(MaxRequests + 1) : ReadStep(i)
    \/ \E i \in 1..(MaxRequests + 1) : WriteStep(i)
    \/ \E i \in 1..(MaxRequests + 1) : FinishStep(i)
    \/ \E i \in 1..(MaxRequests + 1) : ScanReadStep(i)
    \/ \E i \in 1..(MaxRequests + 1) : ScanStartStep(i)

\* Request i writes its config to disk in this step.
Writes(i, ops, p) ==
    /\ i \in DOMAIN reqs
    /\ reqs[i].op \in ops /\ reqs[i].id = p
    /\ reqs[i].pc = "writing" /\ reqs'[i].pc # "writing"

\* C27: a step that takes the persisted enabled of a plugin away from false
\* is the write of an enable or config update, a step that changes the
\* persisted schedule is the write of a config update, and a step that
\* changes the persisted lastRun is the write of a lastRun update.
C27_NoStaleDescriptorWrite ==
    [][\A p \in PluginIds :
          /\ (disk[p].enabled = "false" /\ disk'[p].enabled # "false") =>
                \E i \in DOMAIN reqs : Writes(i, {"enable", "config"}, p)
          /\ disk'[p].schedule # disk[p].schedule =>
                \E i \in DOMAIN reqs : Writes(i, {"config"}, p)
          /\ disk'[p].lastRun # disk[p].lastRun =>
                \E i \in DOMAIN reqs : Writes(i, {"lastRun"}, p)]_vars

(***************************************************************************)
(* Event store operations that overlap                                     *)
(*                                                                         *)
(* updateEvent awaits getEvent before it queues its UPDATE, and getStats   *)
(* issues each of its three queries from the callback of the one before;   *)
(* statements of other callers run in between.  createEvent and            *)
(* deleteEvent are one statement each.                                     *)
(***************************************************************************)

\* eventData of the creates that run next to the overlapping operations.
RacePayloads ==
    {MinimalEvent, FullEvent,
     [MinimalEvent EXCEPT !.source = Word("spotify"), !.type = Word("music.play")]}

\* updates of the overlapping updateEvent calls.
RacePatches ==
    {[EmptyObject EXCEPT !.title = Word("Leg day 2")]}

\* An operation in flight: an updateEvent between its read and its UPDATE,
\* or a getStats between its queries.
StoreRequest(op, id) ==
    [op |-> op, id |-> id, pc |-> "done", merged |-> EmptyObject,
     total |-> 0, bySource |-> {}, byType |-> {}]

\* updateEvent up to its UPDATE statement: getEvent resolves, the merged
\* event is built and validated, the statement is queued.
UpdateRead(id, updates) ==
    /\ Len(reqs) < MaxRequests
    /\ LET event == GetEvent(events, id)
           updatedEvent == MergeUpdates(event, updates, now)
           err == IF event = EmptyObject THEN "notfound"
                  ELSE IF Validate(updatedEvent) # {} THEN "validation"
                  ELSE "none"
       IN /\ reqs' = Append(reqs,
                        IF err = "none"
                        THEN [StoreRequest("update", id) EXCEPT
                                 !.pc = "writing", !.merged = updatedEvent]
                        ELSE StoreRequest("update", id))
          /\ lastOp' = IF err = "none"
                       THEN [NoOp EXCEPT !.op = "read", !.id = id, !.ret = event]
                       ELSE [NoOp EXCEPT !.op = "update", !.id = id, !.err = err,
                                         !.violations =
                                             MergedViolations(events, now, id, updates)]
    /\ listed' = NoListing
    /\ UNCHANGED <<events, now, resolution>>
    /\ UNCHANGED <<disk, activeJobs, jobs, started, resp, run>>

\* The UPDATE runs (it changes the row with that id, if there is one, and
\* is no error when there is none) and updateEvent resolves updatedEvent.
UpdateWrite(i) ==
    /\ i \in DOMAIN reqs
    /\ reqs[i].op = "update" /\ reqs[i].pc = "writing"
    /\ events' = IF Stored(events, reqs[i].id)
                 THEN [events EXCEPT
                          ![reqs[i].id] = UpdateRow(@, SerializeEvent(reqs[i].merged))]
                 ELSE events
    /\ lastOp' = [NoOp EXCEPT !.op = "update", !.id = reqs[i].id,
                              !.ret = reqs[i].merged]
    /\ reqs' = [reqs EXCEPT ![i].pc = "done"]
    /\ listed' = NoListing
    /\ UNCHANGED <<now, resolution>>
    /\ UNCHANGED <<disk, activeJobs, jobs, started, resp, run>>

\* SELECT col, COUNT(*) as count FROM events GROUP BY col
GroupCount(table, col) ==
    {[key |-> v, count |-> Cardinality({id \in EventIds :
                                           Stored(table, id) /\ table[id][col] = v})] :
        v \in {table[id][col] : id \in {k \in EventIds : Stored(table, k)}}}

\* The sum of the counts of a grouped result.
RECURSIVE SumCounts(_)
SumCounts(rows) ==
    IF rows = {} THEN 0
    ELSE LET r == CHOOSE x \in rows : TRUE IN r.count + SumCounts(rows \ {r})

\* getStats: SELECT COUNT(*) as total FROM events
StatsTotal ==
    /\ Len(reqs) < MaxRequests
    /\ reqs' = Append(reqs,
                      [StoreRequest("stats", Undef) EXCEPT
                          !.pc = "bySource",
                          !.total = Cardinality({id \in EventIds : Stored(events, id)})])
    /\ lastOp' = [NoOp EXCEPT !.op = "stats"]
    /\ listed' = NoListing
    /\ UNCHANGED <<events, now, resolution>>
    /\ UNCHANGED <<disk, activeJobs, jobs, started, resp, run>>

\* getStats: the query grouped by source, issued from the first callback.
StatsBySource(i) ==
    /\ i \in DOMAIN reqs
    /\ reqs[i].op = "stats" /\ reqs[i].pc = "bySource"
    /\ reqs' = [reqs EXCEPT ![i].pc = "byType",
                            ![i].bySource = GroupCount(events, "source")]
    /\ lastOp' = [NoOp EXCEPT !.op = "stats"]
    /\ listed' = NoListing
    /\ UNCHANGED <<events, now, resolution>>
    /\ UNCHANGED <<disk, activeJobs, jobs, started, resp, run>>

\* getStats: the query grouped by type, then resolve({total, bySource, byType}).
StatsByType(i) ==
    /\ i \in DOMAIN reqs
    /\ reqs[i].op = "stats" /\ reqs[i].pc = "byType"
    /\ reqs' = [reqs EXCEPT ![i].pc = "done",
                            ![i].byType = GroupCount(events, "type")]
    /\ lastOp' = [NoOp EXCEPT !.op = "stats"]
    /\ listed' = NoListing
    /\ UNCHANGED <<events, now, resolution>>
    /\ UNCHANGED <<disk, activeJobs, jobs, started, resp, run>>

RaceNext ==
    \/ \E eventData \in RacePayloads : CreateEventCall(eventData)
    \/ \E id \in EventIds : DeleteEventReq(id)
    \/ \E id \in EventIds : \E updates \in RacePatches : UpdateRead(id, updates)
    \/ \E i \in 1..MaxRequests : UpdateWrite(i)
    \/ StatsTotal
    \/ \E i \in 1..MaxRequests : StatsBySource(i)
    \/ \E i \in 1..MaxRequests : StatsByType(i)

\* C21: when an update has just reported success, the merged record it
\* returned is what the row with that id holds.
C21_UpdateSuccessIsWritten ==
    (lastOp.op = "update" /\ lastOp.err = "none") =>
        /\ Stored(events, lastOp.id)
        /\ events[lastOp.id] = UpdateRow(events[lastOp.id], SerializeEvent(lastOp.ret))

\* C29: in every result getStats resolves with, total is the sum of the
\* bySource counts and the sum of the byType counts.
C29_StatsConsistent ==
    \A i \in DOMAIN reqs :
        (reqs[i].op = "stats" /\ reqs[i].pc = "done") =>
            /\ reqs[i].total = SumCounts(reqs[i].bySource)
            /\ reqs[i].total = SumCounts(reqs[i].byType)

(***************************************************************************)
(* Specifications                                                          *)
(***************************************************************************)

StoreIdle ==
    /\ events = <<>>
    /\ now = 0
    /\ lastOp = <<>>
    /\ listed = NoListing
    /\ resolution = NoResolution

PluginIdle ==
    /\ disk = [p \in PluginIds |-> NoDir]
    /\ activeJobs = [p \in PluginIds |-> 0]
    /\ jobs = <<>>
    /\ started = FALSE
    /\ resp = NoResp
    /\ run = NoRun
    /\ reqs = NoRequests

\* The plugin routes over a server whose event store is left alone.
PluginSpecInit == PluginInit /\ StoreIdle
PluginSpec == PluginSpecInit /\ [][PluginNext]_vars

\* The event store and its routes over a server without plugins.
StoreSpecInit == StoreInit /\ PluginIdle
StoreSpec == StoreSpecInit /\ [][StoreNext]_vars

\* createEvent, deleteEvent and getEvents over records with tags.
ListSpecInit == ListInit /\ PluginIdle
ListSpec == ListSpecInit /\ [][ListNext]_vars

\* The registry routes and the scheduler routes, one request at a time.
RegistrySpecInit == RegistryInit /\ StoreIdle
RegistrySpec == RegistrySpecInit /\ [][RegistryNext]_vars

\* resolveURI over a store that create and delete fill.
ResolveSpecInit == StoreInit /\ PluginIdle
ResolveSpec == ResolveSpecInit /\ [][ResolveNext]_vars

\* The scan and the scheduler routes, interleaved at their awaits.
OverlapSpecInit == OverlapInit /\ StoreIdle
OverlapSpec == OverlapSpecInit /\ [][OverlapNext]_vars

\* Event store operations interleaved at their awaits and callbacks.
RaceSpecInit == StoreInit /\ PluginIdle
RaceSpec == RaceSpecInit /\ [][RaceNext]_vars

\* The startup scan over plugin directories in any state.
ScanSpecInit == ScanInit /\ StoreIdle
ScanSpec == ScanSpecInit /\ [][ScanNext]_vars

\* Enable and disable next to scheduled runs.
TriggerSpecInit == TriggerInit /\ StoreIdle
TriggerSpec == TriggerSpecInit /\ [][TriggerNext]_vars

\* lastRun updates interleaved with the scan, enable and disable.
LastRunSpecInit == OverlapInit /\ StoreIdle
LastRunSpec == LastRunSpecInit /\ [][LastRunNext]_vars

\* Plugin runs over scanned plugin directories.
RunSpecInit == RunInit /\ StoreIdle
RunSpec == RunSpecInit /\ [][RunNext]_vars

====
